---- MODULE Spec2Model ----
(***************************************************************************)
(* SPECTRE case manager (src/js/case-manager.js) over the storage adapter  *)
(* (src/js/storage.js).                                                    *)
(*                                                                         *)
(* JavaScript values are modelled as follows.                              *)
(*   object            a TLA+ record / function over its own keys          *)
(*   array             a sequence                                          *)
(*   T | null          <<>> for null, <<v>> for the value v                *)
(*   {...a, ...b}      Spread(a, b)                                        *)
(*   Date.now()        the variable now (non-decreasing)                   *)
(*   uniqueId(prefix)  the variable nextId (never repeats)                 *)
(* An object reference held in two places (the element of _cache.cases and *)
(* _cache.activeCase) is modelled by value; every handler below writes the *)
(* in-place mutations of the source to each place that aliases the object. *)
(***************************************************************************)
EXTENDS Integers, Sequences, FiniteSets, TLC

VARIABLES
    cacheCases,      \* SPECTRE_CASES._cache.cases       (<<>> = null, <<array>>)
    cacheActiveCase, \* SPECTRE_CASES._cache.activeCase  (<<>> = null, <<case>>)
    localStorage,    \* the storage adapter over window.localStorage (see ls)
    now,             \* Date.now()
    nextId,          \* source of SPECTRE_UTILS.string.uniqueId
    call,            \* the last public call: its name, arguments and result
    calls,           \* the number of public calls made so far
    background,      \* the caches of the page's other instance (tab), which
                     \* shares window.localStorage: <<>> if there is none
    frames           \* the invocations of SPECTRE_STORAGE.set that have not
                     \* returned yet, the innermost last (see SpecQuota)

vars == <<cacheCases, cacheActiveCase, localStorage, now, nextId, call, calls,
          background, frames>>

----------------------------------------------------------------------------
(* Bounds of the model.  MAX_CASES, MAX_FINDINGS_PER_CASE and MAX_TIMELINE  *)
(* stand for CONFIG.MAX_CASES = 50, CONFIG.MAX_FINDINGS_PER_CASE = 500 and  *)
(* the literal 200 of addTimelineEvent, scaled down so that every cap is    *)
(* exceeded within the explored runs.                                       *)
MAX_CASES == 2
MAX_FINDINGS_PER_CASE == 2
MAX_TIMELINE == 2
MaxTime == 2
MaxCalls == 3

----------------------------------------------------------------------------
(* Generic JavaScript helpers                                               *)

null == "<null>"

\* {...a, ...b}: the keys of both, b's value where both have the key
Spread(a, b) ==
    [k \in (DOMAIN a) \cup (DOMAIN b) |-> IF k \in DOMAIN b THEN b[k] ELSE a[k]]

\* obj.k || dflt for a string-valued property (absent and "" are falsy)
StrOr(obj, k, dflt) ==
    IF k \in DOMAIN obj /\ obj[k] # "" THEN obj[k] ELSE dflt

\* obj.k || dflt for an array-valued property (only absent is falsy)
ArrOr(obj, k, dflt) ==
    IF k \in DOMAIN obj THEN obj[k] ELSE dflt

\* Array.prototype.findIndex(e => e.id === id), 1-based; 0 stands for -1
RECURSIVE FindIndexFrom(_, _, _)
FindIndexFrom(arr, id, i) ==
    IF i > Len(arr) THEN 0
    ELSE IF arr[i].id = id THEN i
    ELSE FindIndexFrom(arr, id, i + 1)

findIndex(arr, id) == FindIndexFrom(arr, id, 1)

\* Array.prototype.splice(index, 1)
splice1(arr, index) ==
    SubSeq(arr, 1, index - 1) \o SubSeq(arr, index + 1, Len(arr))

\* a slice that keeps the first n elements instead of the last n
sliceFirst(arr, n) ==
    IF Len(arr) <= n THEN arr ELSE SubSeq(arr, 1, n)

\* Array.prototype.slice(-n)
sliceLast(arr, n) ==
    IF Len(arr) <= n THEN arr ELSE SubSeq(arr, Len(arr) - n + 1, Len(arr))

\* a trim that drops the newest elements instead of the oldest
RECURSIVE dropNewestWhileOver(_, _)
dropNewestWhileOver(arr, cap) ==
    IF Len(arr) > cap
    THEN dropNewestWhileOver(SubSeq(arr, 1, Len(arr) - 1), cap) ELSE arr

\* while (arr.length > cap) arr.shift()
RECURSIVE shiftWhileOver(_, _)
shiftWhileOver(arr, cap) ==
    IF Len(arr) > cap THEN shiftWhileOver(Tail(arr), cap) ELSE arr

\* a trim that drops the head of the list instead of its tail
RECURSIVE dropHeadWhileOver(_, _)
dropHeadWhileOver(arr, cap) ==
    IF Len(arr) > cap THEN dropHeadWhileOver(Tail(arr), cap) ELSE arr

\* while (arr.length > cap) arr.pop()
RECURSIVE popWhileOver(_, _)
popWhileOver(arr, cap) ==
    IF Len(arr) > cap THEN popWhileOver(SubSeq(arr, 1, Len(arr) - 1), cap) ELSE arr

----------------------------------------------------------------------------
(* storage.js.  The adapter's state ls is a record:                         *)
(*   items    window.localStorage: key -> <<>> (absent) or <<text>>         *)
(*   setItem  how localStorage.setItem answers a write (see StoreModes)     *)
(*   history  SPECTRE_STORAGE._cache.history (<<>> = null, <<array>>)       *)
(*   favorites, settings  SPECTRE_STORAGE._cache.favorites and .settings    *)

KEY_CASES == "spectre-cases"
KEY_ACTIVE_CASE == "spectre-active-case"
KEY_HISTORY == "spectre-hist"
KEY_THEME == "spectre-theme"
KEY_FAVORITES == "spectre-fav"
KEY_SETTINGS == "spectre-settings"

StorageKeys ==
    {KEY_CASES, KEY_ACTIVE_CASE, KEY_HISTORY, KEY_THEME, KEY_FAVORITES, KEY_SETTINGS}

\* CONFIG.MAX_HISTORY and the length above which handleQuotaExceeded trims
MAX_HISTORY == 30
\* CONFIG.MAX_FAVORITES
MAX_FAVORITES == 100
QUOTA_KEEP == 10

\* How the browser answers localStorage.setItem:
\*   "accepts"  the write is stored
\*   "full"     the store has no room left: QuotaExceededError, unless the
\*              write replaces a list by a shorter one
\*   "closed"   the store has a quota of zero (private browsing):
\*              QuotaExceededError on every write
\*   "legacy"   the store is full and reports it under a name other than
\*              QuotaExceededError (NS_ERROR_DOM_QUOTA_REACHED)
StoreModes == {"accepts", "full", "closed", "legacy"}

\* JSON.stringify / JSON.parse on the values the case manager stores (plain
\* objects, arrays, strings and numbers, which JSON represents exactly).  A
\* text that is not JSON (a truncated or overwritten item) is a record
\* without the field json, and JSON.parse throws on it.
JSONstringify(value) == [json |-> value]
JSONparse(text) == text.json

\* a serialization that writes a case without the entries of its findings
JSONstringifyShallow(value, space) ==
    [json |-> [value EXCEPT !.findings = <<>>], space |-> space]

\* JSON.stringify(value, null, space): the same JSON laid out over lines
\* indented by space blanks, another text that parses to the same value
JSONstringifyIndented(value, space) == [json |-> value, space |-> space]
IsJSON(text) == "json" \in DOMAIN text
CorruptText == [corrupt |-> "{\"id\":"]

\* a get that catches the error of JSON.parse and returns null
StorageGetNull(ls, key, defaultValue) ==
    IF Len(ls.items[key]) = 0 THEN defaultValue
    ELSE IF IsJSON(ls.items[key][1]) THEN JSONparse(ls.items[key][1])
    ELSE <<"<null>">>

\* SPECTRE_STORAGE.get(key, defaultValue): the default when the item is
\* absent or when JSON.parse throws
StorageGet(ls, key, defaultValue) ==
    IF Len(ls.items[key]) = 0 THEN defaultValue
    ELSE IF IsJSON(ls.items[key][1]) THEN JSONparse(ls.items[key][1])
    ELSE defaultValue

\* localStorage.setItem(key, text) throws: the name of the error, "" if none
SetItemThrows(ls, key, text) ==
    LET old == ls.items[key]
        shorter == /\ key \in {KEY_CASES, KEY_HISTORY}
                   /\ Len(old) = 1 /\ IsJSON(old[1]) /\ IsJSON(text)
                   /\ Len(text.json) < Len(old[1].json)
    IN  CASE ls.setItem = "accepts" -> ""
          [] ls.setItem = "full" -> IF shorter THEN "" ELSE "QuotaExceededError"
          [] ls.setItem = "closed" -> "QuotaExceededError"
          [] ls.setItem = "legacy" -> "NS_ERROR_DOM_QUOTA_REACHED"

\* SPECTRE_STORAGE.getHistory()
getHistory(ls) ==
    IF Len(ls.history) # 0 THEN ls.history[1] ELSE StorageGet(ls, KEY_HISTORY, <<>>)

\* a cut that keeps the history whole
WholeHistory(history) == history

\* history.slice(0, Math.floor(history.length / 2))
FirstHalf(history) == SubSeq(history, 1, Len(history) \div 2)

RECURSIVE handleQuotaExceeded(_)

\* a set that removes the item when the write is rejected
StorageSetLosing(ls, key, value) ==
    LET err == SetItemThrows(ls, key, JSONstringify(value))
    IN  IF err = "" THEN [ls EXCEPT !.items[key] = <<JSONstringify(value)>>]
        ELSE IF err = "QuotaExceededError"
        THEN handleQuotaExceeded([ls EXCEPT !.items[key] = <<>>])
        ELSE [ls EXCEPT !.items[key] = <<>>]

\* SPECTRE_STORAGE.set(key, value): the adapter after the call.  A write
\* that throws QuotaExceededError runs handleQuotaExceeded; the error is
\* caught in either case.
StorageSet(ls, key, value) ==
    LET err == SetItemThrows(ls, key, JSONstringify(value))
    IN  IF err = "" THEN [ls EXCEPT !.items[key] = <<JSONstringify(value)>>]
        ELSE IF err = "QuotaExceededError" THEN handleQuotaExceeded(ls)
        ELSE ls

\* what SPECTRE_STORAGE.set(key, value) returns
StorageSetReturns(ls, key, value) ==
    SetItemThrows(ls, key, JSONstringify(value)) = ""

\* handleQuotaExceeded(): keeps the first half of a history of more than
\* QUOTA_KEEP entries and writes it with set
handleQuotaExceeded(ls) ==
    LET history == getHistory(ls)
        kept == FirstHalf(history)
    IN  IF Len(history) > QUOTA_KEEP
        THEN StorageSet([ls EXCEPT !.history = <<kept>>], KEY_HISTORY, kept)
        ELSE ls

\* SPECTRE_STORAGE.remove(key)
StorageRemove(ls, key) == [ls EXCEPT !.items[key] = <<>>]

\* SPECTRE_STORAGE.getFavorites()
getFavorites(ls) ==
    IF Len(ls.favorites) # 0 THEN ls.favorites[1]
    ELSE StorageGet(ls, KEY_FAVORITES, <<>>)

\* the default of getSettings()
DefaultSettings ==
    [defaultFilter |-> "free", autoOpenLinks |-> FALSE, showTooltips |-> TRUE,
     compactMode |-> FALSE]

\* SPECTRE_STORAGE.getSettings()
getSettings(ls) ==
    IF Len(ls.settings) # 0 THEN ls.settings[1]
    ELSE StorageGet(ls, KEY_SETTINGS, DefaultSettings)

\* SPECTRE_STORAGE.init()
StorageInit(ls) ==
    LET withFavorites == [ls EXCEPT !.favorites = <<getFavorites(ls)>>]
        withHistory == [withFavorites EXCEPT !.history = <<getHistory(withFavorites)>>]
    IN  [withHistory EXCEPT !.settings = <<getSettings(withHistory)>>]

\* Array.prototype.slice(0, end)
sliceTo(arr, end) == SubSeq(arr, 1, IF Len(arr) < end THEN Len(arr) ELSE end)

\* The null of a list that importData is given, and of its arguments: the
\* value on which reading a property raises a TypeError.  It is a record
\* that has none of the properties read.
NullValue == [isNull |-> TRUE]
IsNullValue(v) == "isNull" \in DOMAIN v

\* data.k && ..., for the properties of the import file
Has(data, k) == k \in DOMAIN data

\* the message of the TypeError of reading property k of null
TypeErrorMessage(k) ==
    CASE k = "favorites" -> "Cannot read properties of null (reading 'favorites')"
      [] k = "merge" -> "Cannot read properties of null (reading 'merge')"
      [] k = "name" -> "Cannot read properties of null (reading 'name')"
      [] k = "display" -> "Cannot read properties of null (reading 'display')"

\* merged.some(f => f.name === fav.name): "true", "false", or "throws"
\* when the callback reads the name of a null f or fav before it finds the
\* name
SomeNamed(merged, fav) ==
    LET stops == {j \in 1..Len(merged) :
                     IsNullValue(merged[j]) \/ merged[j].name = fav.name}
        first == CHOOSE j \in stops : \A k \in stops : j <= k
    IN  IF Len(merged) = 0 THEN "false"
        ELSE IF IsNullValue(fav) THEN "throws"
        ELSE IF stops = {} THEN "false"
        ELSE IF IsNullValue(merged[first]) THEN "throws"
        ELSE "true"

\* addFavorite(tool, categoryId): the adapter after the call, what the
\* call returns, and whether it ended in the TypeError of a null favorite
addFavorite(ls, tool, categoryId, t) ==
    LET favorites == getFavorites(ls)
        unshifted == <<Spread(tool, [categoryId |-> categoryId, favoritedAt |-> t])>>
                         \o favorites
        limited == IF Len(unshifted) > MAX_FAVORITES
                   THEN SubSeq(unshifted, 1, Len(unshifted) - 1) ELSE unshifted
        cached == [ls EXCEPT !.favorites = <<limited>>]
        exists == SomeNamed(favorites, tool)
    IN  IF exists = "throws" THEN [ls |-> ls, ret |-> FALSE, threw |-> TRUE]
        ELSE IF exists = "true" THEN [ls |-> ls, ret |-> FALSE, threw |-> FALSE]
        ELSE [ls |-> StorageSet(cached, KEY_FAVORITES, limited),
              ret |-> StorageSetReturns(cached, KEY_FAVORITES, limited),
              threw |-> FALSE]

\* updateSettings(updates)
updateSettings(ls, updates) ==
    LET settings == Spread(getSettings(ls), updates)
    IN  StorageSet([ls EXCEPT !.settings = <<settings>>], KEY_SETTINGS, settings)

\* setTheme(theme)
setTheme(ls, theme) == StorageSet(ls, KEY_THEME, theme)

\* data.favorites.forEach(fav => ...) of the merge, from the i-th imported
\* favorite on: merged and results.favorites when the loop ends or throws
RECURSIVE MergeFavorites(_, _, _, _)
MergeFavorites(merged, favorites, i, count) ==
    IF i > Len(favorites)
    THEN [merged |-> merged, count |-> count, threw |-> FALSE]
    ELSE LET found == SomeNamed(merged, favorites[i])
         IN  IF found = "throws"
             THEN [merged |-> merged, count |-> count, threw |-> TRUE]
             ELSE IF found = "true"
             THEN MergeFavorites(merged, favorites, i + 1, count)
             ELSE MergeFavorites(Append(merged, favorites[i]), favorites, i + 1,
                                 count + 1)

\* merged.forEach(item => ...) of the history merge, from the i-th entry
\* on: the entries with a display not seen before, or the throw on null
RECURSIVE UniqueByDisplay(_, _, _)
UniqueByDisplay(merged, i, unique) ==
    IF i > Len(merged) THEN [unique |-> unique, threw |-> FALSE]
    ELSE IF IsNullValue(merged[i]) THEN [unique |-> unique, threw |-> TRUE]
    ELSE IF \E j \in 1..Len(unique) : unique[j].display = merged[i].display
    THEN UniqueByDisplay(merged, i + 1, unique)
    ELSE UniqueByDisplay(merged, i + 1, Append(unique, merged[i]))

\* importData runs as four sections inside one try.  A section maps
\* s = [ls, results, err] to the same record after it; err is "" until a
\* statement throws and the message of the error from then on, and a
\* section that finds err set is skipped (control is in the catch).
Raise(s, message) == [s EXCEPT !.err = message]

\* "Import favorites" (storage.js 435-452)
ImportFavorites(s, data, options) ==
    IF s.err # "" THEN s
    ELSE IF IsNullValue(data) THEN Raise(s, TypeErrorMessage("favorites"))
    ELSE IF ~Has(data, "favorites") THEN s
    ELSE IF IsNullValue(options) THEN Raise(s, TypeErrorMessage("merge"))
    ELSE IF options.merge
    THEN LET m == MergeFavorites(getFavorites(s.ls), data.favorites, 1, 0)
             kept == sliceTo(m.merged, MAX_FAVORITES)
             cached == [s.ls EXCEPT !.favorites = <<kept>>]
         IN  IF m.threw
             THEN [s EXCEPT !.results.favorites = m.count,
                            !.err = TypeErrorMessage("name")]
             ELSE [s EXCEPT !.results.favorites = m.count,
                            !.ls = StorageSet(cached, KEY_FAVORITES, kept)]
    ELSE LET kept == sliceTo(data.favorites, MAX_FAVORITES)
             cached == [s.ls EXCEPT !.favorites = <<kept>>]
         IN  [s EXCEPT !.results.favorites = Len(kept),
                       !.ls = StorageSet(cached, KEY_FAVORITES, kept)]

\* "Import history" (storage.js 454-474)
ImportHistory(s, data, options) ==
    IF s.err # "" THEN s
    ELSE IF ~Has(data, "searchHistory") THEN s
    ELSE IF IsNullValue(options) THEN Raise(s, TypeErrorMessage("merge"))
    ELSE LET u == UniqueByDisplay(data.searchHistory \o getHistory(s.ls), 1, <<>>)
             kept == IF options.merge THEN sliceTo(u.unique, MAX_HISTORY)
                     ELSE sliceTo(data.searchHistory, MAX_HISTORY)
             cached == [s.ls EXCEPT !.history = <<kept>>]
         IN  IF options.merge /\ u.threw
             THEN Raise(s, TypeErrorMessage("display"))
             ELSE [s EXCEPT !.results.history = Len(kept),
                            !.ls = StorageSet(cached, KEY_HISTORY, kept)]

\* "Import settings" (storage.js 476-480)
ImportSettings(s, data) ==
    IF s.err # "" \/ ~Has(data, "settings") THEN s
    ELSE [s EXCEPT !.results.settings = TRUE,
                   !.ls = updateSettings(s.ls, data.settings)]

\* "Import theme" (storage.js 482-485)
ImportTheme(s, data) ==
    IF s.err # "" \/ ~Has(data, "theme") THEN s
    ELSE [s EXCEPT !.ls = setTheme(s.ls, data.theme)]

\* The caches of one instance of the page, and the world of an instance
\* over the browser's store, which the instances of a page share
Instance(w) ==
    [cases |-> w.cases, activeCase |-> w.activeCase, history |-> w.ls.history,
     favorites |-> w.ls.favorites, settings |-> w.ls.settings]

WorldOf(instance, ls) ==
    [cases |-> instance.cases, activeCase |-> instance.activeCase,
     ls |-> [ls EXCEPT !.history = instance.history,
                       !.favorites = instance.favorites,
                       !.settings = instance.settings]]

\* an importData without its try: the error of a section leaves the call
ImportDataUncaught(ls, data, options) ==
    LET s0 == [ls |-> ls, err |-> "",
               results |-> [favorites |-> 0, history |-> 0, settings |-> FALSE,
                            errors |-> <<>>]]
        s == ImportTheme(ImportSettings(ImportHistory(
                 ImportFavorites(s0, data, options), data, options), data), data)
    IN  [ls |-> s.ls, ret |-> s.results, threw |-> s.err # ""]

\* importData(data, options): the adapter after the call, the results it
\* returns, and whether the call ended in an exception
importData(ls, data, options) ==
    LET s0 == [ls |-> ls, err |-> "",
               results |-> [favorites |-> 0, history |-> 0, settings |-> FALSE,
                            errors |-> <<>>]]
        s == ImportTheme(ImportSettings(ImportHistory(
                 ImportFavorites(s0, data, options), data, options), data), data)
    IN  [ls |-> s.ls,
         ret |-> IF s.err = "" THEN s.results
                 ELSE [s.results EXCEPT !.errors = <<s.err>>],
         threw |-> FALSE]

----------------------------------------------------------------------------
(* case-manager.js: configuration                                           *)

TOOL_STATUSES == {"unchecked", "useful", "dead-end", "follow-up", "in-progress"}

STATUS_LABEL ==
    [s \in TOOL_STATUSES |->
        CASE s = "unchecked" -> "Unchecked"
          [] s = "useful" -> "Useful"
          [] s = "dead-end" -> "Dead End"
          [] s = "follow-up" -> "Follow Up"
          [] s = "in-progress" -> "In Progress"]

\* The state of the case manager a handler works on
World == [cases |-> cacheCases, activeCase |-> cacheActiveCase, ls |-> localStorage]

----------------------------------------------------------------------------
(* case-manager.js: reads                                                   *)

\* getAllCases()
getAllCases(w) ==
    IF Len(w.cases) # 0 THEN w.cases[1] ELSE StorageGet(w.ls, KEY_CASES, <<>>)

\* getCase(caseId): <<>> for null
getCase(w, caseId) ==
    LET cases == getAllCases(w)
        index == findIndex(cases, caseId)
    IN  IF index = 0 THEN <<>> ELSE <<cases[index]>>

\* getActiveCase(): <<>> for null
getActiveCase(w) ==
    IF Len(w.activeCase) # 0 THEN w.activeCase
    ELSE LET activeCaseId == StorageGet(w.ls, KEY_ACTIVE_CASE, 0)
         IN  IF activeCaseId # 0 THEN getCase(w, activeCaseId) ELSE <<>>

----------------------------------------------------------------------------
(* case-manager.js: case CRUD.  A handler maps the world w (and the values  *)
(* of Date.now() and uniqueId() it draws) to [w |-> world after, ret |-> r] *)

\* the object literal built by createCase
NewCase(caseData, id, t) ==
    [id |-> id,
     name |-> StrOr(caseData, "name", "Untitled Investigation"),
     description |-> StrOr(caseData, "description", ""),
     tags |-> ArrOr(caseData, "tags", <<>>),
     status |-> "active",
     priority |-> StrOr(caseData, "priority", "medium"),
     createdAt |-> t,
     updatedAt |-> t,
     searches |-> <<>>,
     findings |-> <<>>,
     toolStatuses |-> <<>>,
     notes |-> <<>>,
     timeline |-> <<[type |-> "created", timestamp |-> t,
                     description |-> <<"Investigation created">>]>>,
     metadata |-> [subject |-> ArrOr(caseData, "subject", <<>>),
                   assignee |-> StrOr(caseData, "assignee", ""),
                   dueDate |-> StrOr(caseData, "dueDate", null)]]

\* a createCase that adds the new case at the end of the list
createCaseAtEnd(w, caseData, id, t) ==
    LET newCase == NewCase(caseData, id, t)
        cases == popWhileOver(getAllCases(w) \o <<newCase>>, MAX_CASES)
    IN  [w |-> [w EXCEPT !.cases = <<cases>>,
                         !.ls = StorageSet(w.ls, KEY_CASES, cases)],
         ret |-> newCase]

\* createCase(caseData)
createCase(w, caseData, id, t) ==
    LET newCase == NewCase(caseData, id, t)
        cases == popWhileOver(<<newCase>> \o getAllCases(w), MAX_CASES)
    IN  [w |-> [w EXCEPT !.cases = <<cases>>,
                         !.ls = StorageSet(w.ls, KEY_CASES, cases)],
         ret |-> newCase]

\* an updateCase that writes the updated case alone
updateCaseAlone(w, caseId, updates, t) ==
    LET cases == getAllCases(w)
        index == findIndex(cases, caseId)
        merged == Spread(Spread(cases[index], updates), [updatedAt |-> t])
    IN  IF index = 0 THEN [w |-> w, ret |-> <<>>]
        ELSE [w |-> [w EXCEPT !.cases = <<<<merged>>>>,
                              !.ls = StorageSet(w.ls, KEY_CASES, <<merged>>)],
              ret |-> <<merged>>]

\* updateCase(caseId, updates): ret is <<>> for null
updateCase(w, caseId, updates, t) ==
    LET cases == getAllCases(w)
        index == findIndex(cases, caseId)
    IN  IF index = 0 THEN [w |-> w, ret |-> <<>>]
        ELSE
          LET merged == Spread(Spread(cases[index], updates), [updatedAt |-> t])
              cases2 == [cases EXCEPT ![index] = merged]
          IN  [w |-> [cases |-> <<cases2>>,
                      ls |-> StorageSet(w.ls, KEY_CASES, cases2),
                      activeCase |->
                          IF Len(w.activeCase) # 0 /\ w.activeCase[1].id = caseId
                          THEN <<merged>> ELSE w.activeCase],
               ret |-> <<merged>>]

\* a setActiveCase that does not check that the case exists
setActiveCaseUnverified(w, caseId) ==
    IF Len(caseId) = 0
    THEN [w EXCEPT !.activeCase = <<>>,
                   !.ls = StorageRemove(w.ls, KEY_ACTIVE_CASE)]
    ELSE [w EXCEPT !.activeCase = getCase(w, caseId[1]),
                   !.ls = StorageSet(w.ls, KEY_ACTIVE_CASE, caseId[1])]

\* setActiveCase(caseId): caseId is <<>> for null, <<id>> otherwise
setActiveCase(w, caseId) ==
    IF Len(caseId) = 0
    THEN [w EXCEPT !.activeCase = <<>>,
                   !.ls = StorageRemove(w.ls, KEY_ACTIVE_CASE)]
    ELSE LET caseObj == getCase(w, caseId[1])
         IN  IF Len(caseObj) # 0
             THEN [w EXCEPT !.activeCase = caseObj,
                            !.ls = StorageSet(w.ls, KEY_ACTIVE_CASE, caseId[1])]
             ELSE w

\* deleteCase(caseId)
deleteCase(w, caseId) ==
    LET cases == getAllCases(w)
        index == findIndex(cases, caseId)
    IN  IF index = 0 THEN [w |-> w, ret |-> FALSE]
        ELSE
          LET cases2 == splice1(cases, index)
              w1 == [w EXCEPT !.cases = <<cases2>>,
                              !.ls = StorageSet(w.ls, KEY_CASES, cases2)]
          IN  [w |-> IF Len(w1.activeCase) # 0 /\ w1.activeCase[1].id = caseId
                     THEN setActiveCase(w1, <<>>) ELSE w1,
               ret |-> TRUE]

\* init()
init(w) ==
    LET w1 == [w EXCEPT !.cases = <<getAllCases(w)>>]
    IN  [w1 EXCEPT !.activeCase = getActiveCase(w1)]

----------------------------------------------------------------------------
(* case-manager.js: timeline                                                *)

\* addTimelineEvent(caseId, type, description): the push and the trim are
\* made on the object getCase returns, which is the element of _cache.cases
\* when the cache is loaded and a freshly parsed, unreferenced copy otherwise
addTimelineEvent(w, caseId, type, description, t) ==
    LET cases == getAllCases(w)
        index == findIndex(cases, caseId)
    IN  IF index = 0 \/ Len(w.cases) = 0 THEN w
        ELSE
          LET pushed == Append(cases[index].timeline,
                               [type |-> type, timestamp |-> t,
                                description |-> description])
              timeline == IF Len(pushed) > MAX_TIMELINE
                          THEN sliceLast(pushed, MAX_TIMELINE) ELSE pushed
          IN  [w EXCEPT !.cases =
                  <<[cases EXCEPT ![index] = [@ EXCEPT !.timeline = timeline]]>>]

----------------------------------------------------------------------------
(* case-manager.js: search management                                       *)

\* values.k, "" when the property is absent (undefined is falsy as "" is)
Prop(values, k) == IF k \in DOMAIN values THEN values[k] ELSE ""

\* formatSearchSummary(values): the parts that parts.join(', ') joins
formatSearchSummary(values) ==
    LET name == IF Prop(values, "first") # "" /\ Prop(values, "last") # ""
                THEN <<<<values.first, " ", values.last>>>>
                ELSE IF Prop(values, "first") # "" THEN <<<<values.first>>>>
                ELSE <<>>
        username == IF Prop(values, "username") # ""
                    THEN <<<<"@", values.username>>>> ELSE <<>>
        plain(k) == IF Prop(values, k) # "" THEN <<<<values[k]>>>> ELSE <<>>
        parts == name \o username \o plain("email") \o plain("domain")
                      \o plain("phone") \o plain("ip")
    IN  IF Len(parts) = 0 THEN <<<<"Unknown">>>> ELSE parts

\* a map of the links that keeps each link whole
KeepLink(l) == l

\* l => ({id, name, url, badge, category})
ReduceLink(l) ==
    [id |-> l.id, name |-> l.name, url |-> l.url, badge |-> l.badge,
     category |-> l.category]

\* saveSearchToCase(searchValues, generatedLinks): ret is <<>> for null.
\* The push is made on the object getActiveCase returns; when that object is
\* the cached _cache.activeCase it keeps the push even if updateCase fails.
saveSearchToCase(w, searchValues, generatedLinks, id, t) ==
    LET active == getActiveCase(w)
    IN  IF Len(active) = 0 THEN [w |-> w, ret |-> <<>>]
        ELSE
          LET activeCase == active[1]
              searchSnapshot ==
                  [id |-> id, timestamp |-> t, values |-> searchValues,
                   toolCount |-> Len(generatedLinks),
                   links |-> [i \in 1..Len(generatedLinks) |->
                                 ReduceLink(generatedLinks[i])]]
              searches == Append(activeCase.searches, searchSnapshot)
              w0 == IF Len(w.activeCase) # 0
                    THEN [w EXCEPT !.activeCase =
                             <<[activeCase EXCEPT !.searches = searches]>>]
                    ELSE w
              w1 == addTimelineEvent(w0, activeCase.id, "search",
                        <<"Search saved: ", formatSearchSummary(searchValues)>>, t)
              r == updateCase(w1, activeCase.id, [searches |-> searches], t)
          IN  [w |-> r.w, ret |-> <<searchSnapshot>>]

----------------------------------------------------------------------------
(* case-manager.js: tool status and findings                                *)

\* a setToolStatus that stores a map holding only the tool it was given
setToolStatusAlone(w, caseId, toolId, status, t) ==
    IF status \notin TOOL_STATUSES THEN [w |-> w, ret |-> FALSE]
    ELSE
      LET caseObj == getCase(w, caseId)
      IN  IF Len(caseObj) = 0 THEN [w |-> w, ret |-> FALSE]
          ELSE
            LET toolStatuses == toolId :> status
                w1 == addTimelineEvent(w, caseId, "status",
                          <<"Tool marked as ", STATUS_LABEL[status]>>, t)
                r == updateCase(w1, caseId, [toolStatuses |-> toolStatuses], t)
            IN  [w |-> r.w, ret |-> TRUE]

\* setToolStatus(caseId, toolId, status)
setToolStatus(w, caseId, toolId, status, t) ==
    IF status \notin TOOL_STATUSES THEN [w |-> w, ret |-> FALSE]
    ELSE
      LET caseObj == getCase(w, caseId)
      IN  IF Len(caseObj) = 0 THEN [w |-> w, ret |-> FALSE]
          ELSE
            LET toolStatuses == Spread(caseObj[1].toolStatuses, toolId :> status)
                w1 == addTimelineEvent(w, caseId, "status",
                          <<"Tool marked as ", STATUS_LABEL[status]>>, t)
                r == updateCase(w1, caseId, [toolStatuses |-> toolStatuses], t)
            IN  [w |-> r.w, ret |-> TRUE]

\* the object literal built by addFinding
NewFinding(finding, id, t) ==
    [id |-> id,
     timestamp |-> t,
     toolId |-> StrOr(finding, "toolId", null),
     toolName |-> StrOr(finding, "toolName", ""),
     toolUrl |-> StrOr(finding, "toolUrl", ""),
     category |-> StrOr(finding, "category", ""),
     title |-> StrOr(finding, "title", "Untitled Finding"),
     content |-> StrOr(finding, "content", ""),
     importance |-> StrOr(finding, "importance", "medium"),
     tags |-> ArrOr(finding, "tags", <<>>),
     attachments |-> ArrOr(finding, "attachments", <<>>)]

\* addFinding(caseId, finding): ret is <<>> for null
addFinding(w, caseId, finding, id, t) ==
    LET caseObj == getCase(w, caseId)
    IN  IF Len(caseObj) = 0 THEN [w |-> w, ret |-> <<>>]
        ELSE
          LET newFinding == NewFinding(finding, id, t)
              findings == shiftWhileOver(Append(caseObj[1].findings, newFinding),
                                         MAX_FINDINGS_PER_CASE)
              w1 == addTimelineEvent(w, caseId, "finding",
                        <<"Finding added: ", newFinding.title>>, t)
              r == updateCase(w1, caseId, [findings |-> findings], t)
          IN  [w |-> r.w, ret |-> <<newFinding>>]

\* an updateFinding that moves the case it has updated to the front of the
\* collection
updateFindingToFront(w, caseId, findingId, updates, t) ==
    LET caseObj == getCase(w, caseId)
        index == findIndex(caseObj[1].findings, findingId)
        updated == Spread(Spread(caseObj[1].findings[index], updates),
                          [updatedAt |-> t])
        findings == [caseObj[1].findings EXCEPT ![index] = updated]
        r == updateCase(w, caseId, [findings |-> findings], t)
        cases == getAllCases(r.w)
        at == findIndex(cases, caseId)
        moved == <<cases[at]>> \o splice1(cases, at)
    IN  IF Len(caseObj) = 0 THEN [w |-> w, ret |-> <<>>]
        ELSE IF index = 0 THEN [w |-> w, ret |-> <<>>]
        ELSE [w |-> [r.w EXCEPT !.cases = <<moved>>,
                                !.ls = StorageSet(r.w.ls, KEY_CASES, moved)],
              ret |-> <<updated>>]

\* updateFinding(caseId, findingId, updates): ret is <<>> for null
updateFinding(w, caseId, findingId, updates, t) ==
    LET caseObj == getCase(w, caseId)
    IN  IF Len(caseObj) = 0 THEN [w |-> w, ret |-> <<>>]
        ELSE
          LET index == findIndex(caseObj[1].findings, findingId)
          IN  IF index = 0 THEN [w |-> w, ret |-> <<>>]
              ELSE
                LET updated == Spread(Spread(caseObj[1].findings[index], updates),
                                      [updatedAt |-> t])
                    findings == [caseObj[1].findings EXCEPT ![index] = updated]
                    r == updateCase(w, caseId, [findings |-> findings], t)
                IN  [w |-> r.w, ret |-> <<updated>>]

\* a deleteFinding without the check of the index: splice(-1, 1) removes
\* the last finding
deleteFindingUnchecked(w, caseId, findingId, t) ==
    LET caseObj == getCase(w, caseId)
    IN  IF Len(caseObj) = 0 THEN [w |-> w, ret |-> FALSE]
        ELSE
          LET index == findIndex(caseObj[1].findings, findingId)
              findings == IF index = 0
                          THEN SubSeq(caseObj[1].findings, 1,
                                      Len(caseObj[1].findings) - 1)
                          ELSE splice1(caseObj[1].findings, index)
              r == updateCase(w, caseId, [findings |-> findings], t)
          IN  [w |-> r.w, ret |-> TRUE]

\* deleteFinding(caseId, findingId)
deleteFinding(w, caseId, findingId, t) ==
    LET caseObj == getCase(w, caseId)
    IN  IF Len(caseObj) = 0 THEN [w |-> w, ret |-> FALSE]
        ELSE
          LET index == findIndex(caseObj[1].findings, findingId)
          IN  IF index = 0 THEN [w |-> w, ret |-> FALSE]
              ELSE
                LET findings == splice1(caseObj[1].findings, index)
                    r == updateCase(w, caseId, [findings |-> findings], t)
                IN  [w |-> r.w, ret |-> TRUE]

----------------------------------------------------------------------------
(* case-manager.js: notes                                                   *)

\* an addNote that pushes the note and the event without calling updateCase
addNoteUnsaved(w, caseId, content, id, t) ==
    LET cases == getAllCases(w)
        index == findIndex(cases, caseId)
        note == [id |-> id, timestamp |-> t, content |-> content]
        w1 == addTimelineEvent(w, caseId, "note", <<"Note added">>, t)
        pushed == [getAllCases(w1) EXCEPT ![index].notes = Append(@, note)]
    IN  IF index = 0 THEN [w |-> w, ret |-> <<>>]
        ELSE [w |-> IF Len(w.cases) = 0 THEN w1 ELSE [w1 EXCEPT !.cases = <<pushed>>],
              ret |-> <<note>>]

\* addNote(caseId, content): ret is <<>> for null
addNote(w, caseId, content, id, t) ==
    LET caseObj == getCase(w, caseId)
    IN  IF Len(caseObj) = 0 THEN [w |-> w, ret |-> <<>>]
        ELSE
          LET note == [id |-> id, timestamp |-> t, content |-> content]
              notes == Append(caseObj[1].notes, note)
              w1 == addTimelineEvent(w, caseId, "note", <<"Note added">>, t)
              r == updateCase(w1, caseId, [notes |-> notes], t)
          IN  [w |-> r.w, ret |-> <<note>>]

\* deleteNote(caseId, noteId)
deleteNote(w, caseId, noteId, t) ==
    LET caseObj == getCase(w, caseId)
    IN  IF Len(caseObj) = 0 THEN [w |-> w, ret |-> FALSE]
        ELSE
          LET index == findIndex(caseObj[1].notes, noteId)
          IN  IF index = 0 THEN [w |-> w, ret |-> FALSE]
              ELSE
                LET notes == splice1(caseObj[1].notes, index)
                    r == updateCase(w, caseId, [notes |-> notes], t)
                IN  [w |-> r.w, ret |-> TRUE]

----------------------------------------------------------------------------
(* case-manager.js: export.  Text is modelled as the sequence of its lines, *)
(* a line as the tuple of its fixed words and the values printed in it.     *)

\* new Date(t).toLocaleString()
toLocaleString(t) == <<"locale", t>>

\* SPECTRE_UTILS.string.escapeHtml(str): the text with its markup characters
\* replaced, which for the empty text is the empty text
escapeHtml(str) == <<"escaped", str>>

\* SPECTRE_UTILS.string.slugify(str), on the case names of the model
slugify(str) ==
    CASE str = "Untitled Investigation" -> "untitled-investigation"
      [] str = "Test Case" -> "test-case"

IMPORTANCES == <<"critical", "high", "medium", "low">>

ImportanceHeading(importance) ==
    CASE importance = "critical" -> "### Critical Priority"
      [] importance = "high" -> "### High Priority"
      [] importance = "medium" -> "### Medium Priority"
      [] importance = "low" -> "### Low Priority"

\* md += ... in a forEach: the concatenation of the sequences of lines
\* parts[1], ..., parts[n]
RECURSIVE Appended(_)
Appended(parts) ==
    IF Len(parts) = 0 THEN <<>> ELSE Head(parts) \o Appended(Tail(parts))

\* a grouping that files every finding under medium as well
ByImportanceOrMedium(findings, importance) ==
    LET here(f) == f.importance = importance \/ importance = "medium"
    IN  SelectSeq(findings, here)

\* byImportance[importance] after the forEach that groups the findings: a
\* finding whose importance is no key of byImportance goes to medium
ByImportance(findings, importance) ==
    LET known == {IMPORTANCES[i] : i \in 1..Len(IMPORTANCES)}
        here(f) == \/ f.importance = importance
                   \/ (importance = "medium" /\ f.importance \notin known)
    IN  SelectSeq(findings, here)

\* statusCounts: status -> number of tools that have it
StatusCounts(toolStatuses) ==
    [status \in {toolStatuses[k] : k \in DOMAIN toolStatuses} |->
        Cardinality({k \in DOMAIN toolStatuses : toolStatuses[k] = status})]

\* caseToMarkdown(caseObj) reads config.icon of an undefined config when a
\* tool has a status that STATUS_CONFIG does not list: a TypeError
MarkdownThrows(caseObj) ==
    \E status \in DOMAIN StatusCounts(caseObj.toolStatuses) :
        status \notin TOOL_STATUSES

\* caseToMarkdown(caseObj): each line is the tuple of the pieces the source
\* concatenates, the first of them a fixed or stored string; the lines of
\* the status tally are a set, the model of toolStatuses keeping no key order
caseToMarkdown(caseObj) ==
    LET findingLines(f) ==
            <<<<"#### ", f.title>>,
              <<"*", toLocaleString(f.timestamp), "*",
                IF f.toolName # "" THEN <<" | Tool: ", f.toolName>> ELSE <<>>>>,
              <<f.content>>>>
            \o (IF f.toolUrl # "" THEN <<<<"[Open Tool]", f.toolUrl>>>> ELSE <<>>)
        group(importance) ==
            LET g == ByImportance(caseObj.findings, importance)
            IN  IF Len(g) > 0
                THEN <<<<ImportanceHeading(importance)>>>>
                     \o Appended([i \in 1..Len(g) |->
                           findingLines(g[i])])
                ELSE <<>>
        searchLines(i) ==
            <<<<"### Search ", i, toLocaleString(caseObj.searches[i].timestamp)>>,
              <<"**Parameters:** ", formatSearchSummary(caseObj.searches[i].values)>>,
              <<"**Tools Generated:** ", caseObj.searches[i].toolCount>>>>
        RECURSIVE searchesFrom(_)
        searchesFrom(i) ==
            IF i > Len(caseObj.searches) THEN <<>>
            ELSE searchLines(i) \o searchesFrom(i + 1)
        noteLines(n) ==
            <<<<"**", toLocaleString(n.timestamp), "**">>, <<n.content>>, <<"---">>>>
        counts == StatusCounts(caseObj.toolStatuses)
    IN  <<<<"# Investigation: ", caseObj.name>>,
          <<"**Status:** ", caseObj.status, " | **Priority:** ", caseObj.priority>>,
          <<"**Created:** ", toLocaleString(caseObj.createdAt)>>,
          <<"**Last Updated:** ", toLocaleString(caseObj.updatedAt)>>>>
        \o (IF caseObj.description # ""
            THEN <<<<"## Description", caseObj.description>>>> ELSE <<>>)
        \o (IF Len(caseObj.tags) > 0 THEN <<<<"**Tags:** ", caseObj.tags>>>> ELSE <<>>)
        \o (IF DOMAIN caseObj.metadata.subject # {}
            THEN <<<<"## Subject Information",
                     {<<k, caseObj.metadata.subject[k]>> :
                         k \in {j \in DOMAIN caseObj.metadata.subject :
                                   caseObj.metadata.subject[j] # ""}}>>>>
            ELSE <<>>)
        \o (IF Len(caseObj.findings) > 0
            THEN <<<<"## Findings", Len(caseObj.findings)>>>>
                 \o group("critical") \o group("high")
                 \o group("medium") \o group("low")
            ELSE <<>>)
        \o (IF Len(caseObj.searches) > 0
            THEN <<<<"## Search History", Len(caseObj.searches)>>>> \o searchesFrom(1)
            ELSE <<>>)
        \o (IF Len(caseObj.notes) > 0
            THEN <<<<"## Notes">>>>
                 \o Appended([i \in 1..Len(caseObj.notes) |->
                       noteLines(caseObj.notes[i])])
            ELSE <<>>)
        \o (IF DOMAIN counts # {}
            THEN <<<<"## Tool Status Summary",
                     {<<STATUS_LABEL[status], counts[status]>> :
                         status \in DOMAIN counts}>>>>
            ELSE <<>>)
        \o <<<<"*Exported from SPECTRE OSINT Platform*">>>>

\* caseToHTML(caseObj), generated at time t
caseToHTML(caseObj, t) ==
    LET counts == StatusCounts(caseObj.toolStatuses)
        findingItem(f) ==
            <<<<"finding", escapeHtml(f.title), f.importance,
                IF f.toolName # "" THEN <<"Tool: ", escapeHtml(f.toolName)>> ELSE <<>>,
                toLocaleString(f.timestamp), escapeHtml(f.content),
                IF f.toolUrl # "" THEN <<"Open Tool", escapeHtml(f.toolUrl)>>
                ELSE <<>>>>>>
        noteItem(n) == <<<<"note", toLocaleString(n.timestamp), escapeHtml(n.content)>>>>
    IN  <<<<"title", escapeHtml(caseObj.name)>>,
          <<"header", escapeHtml(caseObj.name), caseObj.status, caseObj.priority,
            toLocaleString(caseObj.createdAt), toLocaleString(caseObj.updatedAt),
            IF caseObj.description # "" THEN <<escapeHtml(caseObj.description)>>
            ELSE <<>>>>,
          <<"stats", Len(caseObj.searches), Len(caseObj.findings),
            Cardinality(DOMAIN caseObj.toolStatuses),
            IF "useful" \in DOMAIN counts THEN counts["useful"] ELSE 0>>>>
        \o (IF Len(caseObj.findings) > 0
            THEN <<<<"Findings">>>>
                 \o Appended([i \in 1..Len(caseObj.findings) |->
                       findingItem(caseObj.findings[i])])
            ELSE <<>>)
        \o (IF Len(caseObj.notes) > 0
            THEN <<<<"Notes">>>>
                 \o Appended([i \in 1..Len(caseObj.notes) |->
                       noteItem(caseObj.notes[i])])
            ELSE <<>>)
        \o <<<<"Generated by SPECTRE OSINT Platform on ", toLocaleString(t)>>>>

\* an exportCase that puts the findings of the case in the order of the
\* report by sorting the case's own array
exportCaseSorting(w, caseId, format, t) ==
    LET cases == getAllCases(w)
        index == findIndex(cases, caseId)
        sorted == Appended([k \in 1..Len(IMPORTANCES) |->
                      ByImportance(cases[index].findings, IMPORTANCES[k])])
    IN  IF index = 0 THEN [w |-> w, ret |-> <<>>, threw |-> FALSE]
        ELSE [w |-> [w EXCEPT !.cases = <<[cases EXCEPT ![index].findings = sorted]>>],
              ret |-> <<>>, threw |-> FALSE]

\* exportCase(caseId, format): w is the world after the call, which the
\* export only reads; ret is <<>> for null; threw tells that the call ended
\* in an exception instead of a result
exportCase(w, caseId, format, t) ==
    LET caseObj == getCase(w, caseId)
        file(ext) == <<"spectre-case-", slugify(caseObj[1].name), "-", t, ext>>
    IN  IF Len(caseObj) = 0 THEN [w |-> w, ret |-> <<>>, threw |-> FALSE]
        ELSE CASE format = "json" ->
                    [w |-> w, ret |-> <<[content |-> JSONstringifyIndented(caseObj[1], 2),
                                filename |-> file(".json"),
                                mimeType |-> "application/json"]>>,
                     threw |-> FALSE]
               [] format = "markdown" ->
                    IF MarkdownThrows(caseObj[1])
                    THEN [w |-> w, ret |-> <<>>, threw |-> TRUE]
                    ELSE [w |-> w, ret |-> <<[content |-> caseToMarkdown(caseObj[1]),
                                     filename |-> file(".md"),
                                     mimeType |-> "text/markdown"]>>,
                          threw |-> FALSE]
               [] format = "html" ->
                    [w |-> w, ret |-> <<[content |-> caseToHTML(caseObj[1], t),
                                filename |-> file(".html"),
                                mimeType |-> "text/html"]>>,
                     threw |-> FALSE]
               [] OTHER -> [w |-> w, ret |-> <<>>, threw |-> FALSE]

----------------------------------------------------------------------------
(* Inputs of the public calls                                               *)

\* an id that uniqueId never hands out
MissingId == CHOOSE id \in {0} : TRUE

\* ids a caller can hold: of the listed cases, of the case getActiveCase
\* returns, and one that uniqueId never hands out
CaseIdInputs ==
    {getAllCases(World)[i].id : i \in 1..Len(getAllCases(World))}
        \cup {getActiveCase(World)[i].id : i \in 1..Len(getActiveCase(World))}
        \cup {MissingId}

\* ids of the findings and notes of the listed cases, and a missing one
FindingIdInputs ==
    UNION {{getAllCases(World)[i].findings[j].id :
                j \in 1..Len(getAllCases(World)[i].findings)} :
           i \in 1..Len(getAllCases(World))} \cup {MissingId}

NoteIdInputs ==
    UNION {{getAllCases(World)[i].notes[j].id :
                j \in 1..Len(getAllCases(World)[i].notes)} :
           i \in 1..Len(getAllCases(World))} \cup {MissingId}

CaseDataInputs ==
    {[name |-> ""], [name |-> "Test Case", priority |-> "high"]}

ToolIds == {"t1", "t2"}

StatusInputs == {"useful", "bogus-status"}

\* partial fields given to updateCase: plain data fields, an attempt to set
\* updatedAt, and a toolStatuses map as a caller may build it
UpdateInputs ==
    {[status |-> "closed", updatedAt |-> 0],
     [toolStatuses |-> ("t1" :> "bogus-status")]}

FindingInputs ==
    {[content |-> ""],
     [title |-> "Leaked email", content |-> "Found on breach site",
      importance |-> "high"]}

FindingUpdates == {[content |-> "edited"]}

NoteInputs == {"call back"}

FormatInputs == {"json", "markdown", "html", "pdf"}

SearchValueInputs == {[email |-> "a@b.com"]}

LinkInputs ==
    {<<[id |-> "x", name |-> "Tool1", url |-> "http://t", badge |-> "free",
        category |-> "Email", desc |-> "not kept"]>>,
     <<[id |-> "y", name |-> "Tool2", url |-> "http://u", badge |-> "paid",
        category |-> "Domain", desc |-> "not kept"],
       [id |-> "x", name |-> "Tool1", url |-> "http://t", badge |-> "free",
        category |-> "Email", desc |-> "not kept"]>>}

----------------------------------------------------------------------------
(* The state machine: one action per public call                            *)

\* the explored runs make at most MaxCalls public calls
Budget == calls < MaxCalls

\* a call returns in the instance it was made in; the caches of the other
\* instance are out of its reach
Returned(name, args, ret, threw) ==
    /\ calls' = calls + 1
    /\ UNCHANGED <<background, frames>>
    /\ call' = [name |-> name, args |-> args, ret |-> ret, threw |-> threw]

Called(name, args, ret) == Returned(name, args, ret, FALSE)

Install(w) ==
    /\ cacheCases' = w.cases
    /\ cacheActiveCase' = w.activeCase
    /\ localStorage' = w.ls

\* the store a previous session leaves after k createCase calls on an
\* empty store
RECURSIVE StoreAfter(_)
StoreAfter(k) ==
    IF k = 0
    THEN [cases |-> <<>>, activeCase |-> <<>>,
          ls |-> [items |-> [key \in StorageKeys |-> <<>>],
                  setItem |-> "accepts", history |-> <<>>,
                  favorites |-> <<>>, settings |-> <<>>]]
    ELSE createCase(StoreAfter(k - 1), [name |-> ""], k, 1).w

\* the page load: the SPECTRE_STORAGE and SPECTRE_CASES literals are built
\* with empty caches and the load hooks at the end of storage.js and
\* case-manager.js run their init()
PageLoaded(w) ==
    init([w EXCEPT !.cases = <<>>, !.activeCase = <<>>,
                   !.ls = StorageInit([w.ls EXCEPT !.history = <<>>, !.favorites = <<>>,
                                                  !.settings = <<>>])])

\* the module is loaded on the store of a previous session that created k
\* cases and may have made one of them the active case
Init ==
    /\ \E k \in 0..MAX_CASES :
         \E caseId \in {<<>>} \cup {<<i>> : i \in 1..k} :
            LET w == PageLoaded(setActiveCase(StoreAfter(k), caseId))
            IN  /\ cacheCases = w.cases
                /\ cacheActiveCase = w.activeCase
                /\ localStorage = w.ls
                /\ nextId = k + 1
    /\ now = 1
    /\ call = [name |-> "load", args |-> <<>>, ret |-> <<>>, threw |-> FALSE]
    /\ calls = 0
    /\ background = <<>>
    /\ frames = <<>>

Tick ==
    /\ now < MaxTime
    /\ now' = now + 1
    /\ UNCHANGED <<cacheCases, cacheActiveCase, localStorage, nextId, call, calls,
                   background, frames>>

\* the page is loaded again
PageLoad ==
    /\ Budget
    /\ Install(PageLoaded(World))
    /\ Called("load", <<>>, <<>>)
    /\ UNCHANGED <<now, nextId>>

InitCall ==
    /\ Budget
    /\ Install(init(World))
    /\ Called("init", <<>>, <<>>)
    /\ UNCHANGED <<now, nextId>>

GetCase ==
    /\ Budget
    /\ \E caseId \in CaseIdInputs :
           /\ Called("getCase", <<caseId>>, getCase(World, caseId))
           /\ UNCHANGED <<cacheCases, cacheActiveCase, localStorage, now, nextId>>

CreateCase ==
    /\ Budget
    /\ \E caseData \in CaseDataInputs :
           LET r == createCase(World, caseData, nextId, now)
           IN  /\ Install(r.w)
               /\ nextId' = nextId + 1
               /\ Called("createCase", <<caseData>>, r.ret)
               /\ UNCHANGED now

UpdateCase ==
    /\ Budget
    /\ \E caseId \in CaseIdInputs, updates \in UpdateInputs :
           LET r == updateCase(World, caseId, updates, now)
           IN  /\ Install(r.w)
               /\ Called("updateCase", <<caseId, updates>>, r.ret)
               /\ UNCHANGED <<now, nextId>>

DeleteCase ==
    /\ Budget
    /\ \E caseId \in CaseIdInputs :
           LET r == deleteCase(World, caseId)
           IN  /\ Install(r.w)
               /\ Called("deleteCase", <<caseId>>, r.ret)
               /\ UNCHANGED <<now, nextId>>

SetActiveCase ==
    /\ Budget
    /\ \E caseId \in {<<>>} \cup {<<i>> : i \in CaseIdInputs} :
           /\ Install(setActiveCase(World, caseId))
           /\ Called("setActiveCase", <<caseId>>, <<>>)
           /\ UNCHANGED <<now, nextId>>

SaveSearchToCase ==
    /\ Budget
    /\ \E searchValues \in SearchValueInputs, generatedLinks \in LinkInputs :
           LET r == saveSearchToCase(World, searchValues, generatedLinks, nextId, now)
           IN  /\ Install(r.w)
               /\ nextId' = IF Len(r.ret) = 0 THEN nextId ELSE nextId + 1
               /\ Called("saveSearchToCase",
                                 <<searchValues, generatedLinks>>, r.ret)
               /\ UNCHANGED now

SetToolStatus ==
    /\ Budget
    /\ \E caseId \in CaseIdInputs, toolId \in ToolIds, status \in StatusInputs :
           LET r == setToolStatus(World, caseId, toolId, status, now)
           IN  /\ Install(r.w)
               /\ Called("setToolStatus", <<caseId, toolId, status>>, r.ret)
               /\ UNCHANGED <<now, nextId>>

AddFinding ==
    /\ Budget
    /\ \E caseId \in CaseIdInputs, finding \in FindingInputs :
           LET r == addFinding(World, caseId, finding, nextId, now)
           IN  /\ Install(r.w)
               /\ nextId' = IF Len(r.ret) = 0 THEN nextId ELSE nextId + 1
               /\ Called("addFinding", <<caseId, finding>>, r.ret)
               /\ UNCHANGED now

UpdateFinding ==
    /\ Budget
    /\ \E caseId \in CaseIdInputs, findingId \in FindingIdInputs, updates \in FindingUpdates :
           LET r == updateFinding(World, caseId, findingId, updates, now)
           IN  /\ Install(r.w)
               /\ Called("updateFinding", <<caseId, findingId, updates>>, r.ret)
               /\ UNCHANGED <<now, nextId>>

DeleteFinding ==
    /\ Budget
    /\ \E caseId \in CaseIdInputs, findingId \in FindingIdInputs :
           LET r == deleteFinding(World, caseId, findingId, now)
           IN  /\ Install(r.w)
               /\ Called("deleteFinding", <<caseId, findingId>>, r.ret)
               /\ UNCHANGED <<now, nextId>>

AddNote ==
    /\ Budget
    /\ \E caseId \in CaseIdInputs, content \in NoteInputs :
           LET r == addNote(World, caseId, content, nextId, now)
           IN  /\ Install(r.w)
               /\ nextId' = IF Len(r.ret) = 0 THEN nextId ELSE nextId + 1
               /\ Called("addNote", <<caseId, content>>, r.ret)
               /\ UNCHANGED now

DeleteNote ==
    /\ Budget
    /\ \E caseId \in CaseIdInputs, noteId \in NoteIdInputs :
           LET r == deleteNote(World, caseId, noteId, now)
           IN  /\ Install(r.w)
               /\ Called("deleteNote", <<caseId, noteId>>, r.ret)
               /\ UNCHANGED <<now, nextId>>

ExportCase ==
    /\ Budget
    /\ \E caseId \in CaseIdInputs, format \in FormatInputs :
           LET r == exportCase(World, caseId, format, now)
           IN  /\ Install(r.w)
               /\ Returned("exportCase", <<caseId, format>>, r.ret, r.threw)
               /\ UNCHANGED <<now, nextId>>

Next ==
    \/ Tick
    \/ PageLoad
    \/ InitCall
    \/ GetCase
    \/ CreateCase
    \/ UpdateCase
    \/ DeleteCase
    \/ SetActiveCase
    \/ SaveSearchToCase
    \/ SetToolStatus
    \/ AddFinding
    \/ UpdateFinding
    \/ DeleteFinding
    \/ AddNote
    \/ DeleteNote
    \/ ExportCase

Spec == Init /\ [][Next]_vars

\* updateCase given the fields the data model calls immutable.  The forged id
\* is one no case holds, which keeps the ids of the listed cases distinct.
IdentityUpdateInputs == {[id |-> MissingId - 1, createdAt |-> 0]}

UpdateCaseIdentity ==
    /\ Budget
    /\ \E caseId \in CaseIdInputs, updates \in IdentityUpdateInputs :
           LET r == updateCase(World, caseId, updates, now)
           IN  /\ updates.id \notin CaseIdInputs
               /\ Install(r.w)
               /\ Called("updateCase", <<caseId, updates>>, r.ret)
               /\ UNCHANGED <<now, nextId>>

NextRaw == Next \/ UpdateCaseIdentity

\* the case store called with any partial fields
SpecRaw == Init /\ [][NextRaw]_vars

----------------------------------------------------------------------------
(* The case store over a browser store that may reject writes and whose     *)
(* items may be damaged from outside the program                            *)

\* the explored runs of SpecStore make at most MaxStoreCalls public calls
MaxStoreCalls == 2

\* the lengths of the search history a previous session left
HistoryLengths == {QUOTA_KEEP, MAX_HISTORY}

\* the entry addToHistory builds for a search of the username i, and the
\* history after searches of the usernames n, ..., 1 (newest first)
HistoryEntry(i) ==
    [values |-> [username |-> ToString(i)], display |-> <<"@", ToString(i)>>,
     timestamp |-> 1]

HistoryOf(n) == [i \in 1..n |-> HistoryEntry(i)]

GetDefaults == {<<>>, <<"default">>}

ThemeInputs == {"light"}

\* the module is loaded on the store of a previous session that made
\* searches and created cases
InitStore ==
    /\ \E k \in 0..MAX_CASES, n \in HistoryLengths :
         \E caseId \in {<<>>} \cup {<<i>> : i \in 1..k} :
            LET w0 == setActiveCase(StoreAfter(k), caseId)
                w == PageLoaded([w0 EXCEPT !.ls =
                         StorageSet(w0.ls, KEY_HISTORY, HistoryOf(n))])
            IN  /\ cacheCases = w.cases
                /\ cacheActiveCase = w.activeCase
                /\ localStorage = w.ls
                /\ nextId = k + 1
    /\ now = 1
    /\ call = [name |-> "load", args |-> <<>>, ret |-> <<>>, threw |-> FALSE]
    /\ calls = 0
    /\ background = <<>>
    /\ frames = <<>>

\* the browser's store fills up, is closed, or gets room again
StoreAnswers ==
    /\ \E mode \in StoreModes \ {localStorage.setItem} :
           localStorage' = [localStorage EXCEPT !.setItem = mode]
    /\ UNCHANGED <<cacheCases, cacheActiveCase, now, nextId, call, calls, background,
                   frames>>

\* an item of the store is damaged (overwritten or truncated) from outside
ItemCorrupted ==
    /\ \E key \in {KEY_CASES} :
           /\ localStorage.items[key] # <<CorruptText>>
           /\ localStorage' = [localStorage EXCEPT !.items[key] = <<CorruptText>>]
    /\ UNCHANGED <<cacheCases, cacheActiveCase, now, nextId, call, calls, background,
                   frames>>

\* SPECTRE_STORAGE.get(key, defaultValue)
StorageGetCall ==
    /\ Budget
    /\ \E key \in StorageKeys, defaultValue \in GetDefaults :
           /\ Called("get", <<key, defaultValue>>,
                     StorageGet(localStorage, key, defaultValue))
           /\ UNCHANGED <<cacheCases, cacheActiveCase, localStorage, now, nextId>>

\* SPECTRE_STORAGE.set(key, value), as setTheme calls it
StorageSetCall ==
    /\ Budget
    /\ \E theme \in ThemeInputs :
           /\ localStorage' = StorageSet(localStorage, KEY_THEME, theme)
           /\ Called("set", <<KEY_THEME, theme>>,
                     StorageSetReturns(localStorage, KEY_THEME, theme))
           /\ UNCHANGED <<cacheCases, cacheActiveCase, now, nextId>>

\* the calls that write, the page load, and the adapter's own get and set
StoreCall ==
    \/ StorageGetCall
    \/ StorageSetCall
    \/ PageLoad
    \/ CreateCase
    \/ UpdateCase
    \/ DeleteCase
    \/ SetActiveCase
    \/ SaveSearchToCase
    \/ SetToolStatus
    \/ AddFinding
    \/ UpdateFinding
    \/ DeleteFinding
    \/ AddNote
    \/ DeleteNote

NextStore ==
    \/ StoreAnswers
    \/ ItemCorrupted
    \/ (calls < MaxStoreCalls /\ StoreCall)

SpecStore == InitStore /\ [][NextStore]_vars

----------------------------------------------------------------------------
(* The export of a case, over cases with every importance of finding       *)

ExportFindingInputs ==
    {[title |-> "Key found", content |-> "In a paste", importance |-> "critical",
      toolName |-> "Tool1", toolUrl |-> "http://t"],
     [title |-> "Leaked email", content |-> "Found on breach site",
      importance |-> "high"],
     [content |-> "Seen once"],
     [title |-> "Old lead", content |-> "Nothing new", importance |-> "low"]}

\* the store after createCase({name: 'Test Case'}) and one addFinding for
\* each finding of the list, in order
RECURSIVE StoreWithFindings(_)
StoreWithFindings(findings) ==
    IF Len(findings) = 0
    THEN createCase(StoreAfter(0), [name |-> "Test Case"], 1, 1).w
    ELSE addFinding(StoreWithFindings(SubSeq(findings, 1, Len(findings) - 1)),
                    1, findings[Len(findings)], Len(findings) + 1, 1).w

\* the module is loaded on the store of a previous session that created a
\* case and added findings to it
InitExport ==
    /\ \E n \in 0..MAX_FINDINGS_PER_CASE :
         \E findings \in [1..n -> ExportFindingInputs] :
            LET w == PageLoaded(StoreWithFindings(findings))
            IN  /\ cacheCases = w.cases
                /\ cacheActiveCase = w.activeCase
                /\ localStorage = w.ls
                /\ nextId = n + 2
    /\ now = 1
    /\ call = [name |-> "load", args |-> <<>>, ret |-> <<>>, threw |-> FALSE]
    /\ calls = 0
    /\ background = <<>>
    /\ frames = <<>>

NextExport ==
    \/ Tick
    \/ ExportCase

SpecExport == InitExport /\ [][NextExport]_vars

----------------------------------------------------------------------------
(* workspace.js: the finding modal of the results workspace                 *)

\* String.prototype.trim, on the contents of the model
trim(str) == IF str = "  " THEN "" ELSE str

\* The object that saveFinding passes where addFinding takes the case id.
\* getCase compares it to the id of each case with ===, and an object is
\* identical to no string: it stands as the id that no case has.
FindingAsCaseId == MissingId

\* SPECTRE_WORKSPACE.saveFinding(), the fields of the modal being its inputs.
\* It calls SPECTRE.cases.addFinding with one argument, the finding object,
\* so that addFinding's caseId is that object and its finding is undefined
\* (never read: addFinding returns before it builds the finding).  toast is
\* the message shown.
saveFinding(w, content, importance, source, url, id, t) ==
    IF trim(content) = ""
    THEN [w |-> w, toast |-> <<"Please enter finding content", "warning">>]
    ELSE LET r == addFinding(w, FindingAsCaseId, <<>>, id, t)
         IN  [w |-> r.w, toast |-> <<"Finding added to case", "success">>]

ContentInputs == {"", "  ", "Found on breach site"}

ImportanceInputs == {"high", "low"}

SaveFinding ==
    /\ Budget
    /\ \E content \in ContentInputs, importance \in ImportanceInputs :
           LET r == saveFinding(World, content, importance, "Tool1", "http://t",
                                nextId, now)
           IN  /\ Install(r.w)
               /\ Called("saveFinding", <<content, importance>>, r.toast)
               /\ UNCHANGED <<now, nextId>>

\* the workspace over the case manager: cases are created, chosen and
\* deleted, findings are added from the case manager and from the workspace
NextWorkspace ==
    \/ Tick
    \/ CreateCase
    \/ SetActiveCase
    \/ DeleteCase
    \/ AddFinding
    \/ SaveFinding

SpecWorkspace == Init /\ [][NextWorkspace]_vars

----------------------------------------------------------------------------
(* The import of a backup file into the storage adapter                     *)

\* the explored runs of SpecImport make at most MaxImportCalls public calls
MaxImportCalls == 2

\* the numbers of favorites a previous session left
FavoriteLengths == {0, 1, MAX_FAVORITES - 1, MAX_FAVORITES}

\* a tool of the catalogue, and the favorites after addFavorite of the
\* tools 1, ..., n (newest first)
Tool(name) == [name |-> name, url |-> "http://t"]

FavoritesOf(n) ==
    [i \in 1..n |-> Spread(Tool(ToString(n + 1 - i)),
                           [categoryId |-> "people", favoritedAt |-> 1])]

\* the files importData is given: null, and backups whose lists hold new
\* entries, entries the store has already, entries twice and null entries
ImportInputs ==
    {NullValue,
     [favorites |-> <<Tool("A")>>],
     [favorites |-> <<Tool("A"), Tool("B"), Tool("A")>>],
     [favorites |-> <<Tool("1"), Tool("B")>>],
     [favorites |-> <<NullValue, Tool("A")>>],
     [favorites |-> <<Tool("A"), Tool("B")>>, searchHistory |-> <<NullValue>>],
     [searchHistory |-> <<HistoryEntry(2)>>],
     [favorites |-> <<Tool("B")>>,
      searchHistory |-> <<HistoryEntry(1), HistoryEntry(2)>>,
      settings |-> [compactMode |-> TRUE], theme |-> "light"]}

OptionInputs == {[merge |-> TRUE], [merge |-> FALSE], NullValue}

ToolInputs == {Tool("1"), Tool("C")}

\* the module is loaded on the store of a previous session that added
\* favorites and made a search
InitImport ==
    /\ \E n \in FavoriteLengths :
           LET w0 == StoreAfter(0)
               ls == StorageSet(StorageSet(w0.ls, KEY_FAVORITES, FavoritesOf(n)),
                                KEY_HISTORY, HistoryOf(1))
               w == PageLoaded([w0 EXCEPT !.ls = ls])
           IN  /\ cacheCases = w.cases
               /\ cacheActiveCase = w.activeCase
               /\ localStorage = w.ls
    /\ nextId = 1
    /\ now = 1
    /\ call = [name |-> "load", args |-> <<>>, ret |-> <<>>, threw |-> FALSE]
    /\ calls = 0
    /\ background = <<>>
    /\ frames = <<>>

\* SPECTRE_STORAGE.importData(data, options)
ImportData ==
    /\ calls < MaxImportCalls
    /\ \E data \in ImportInputs, options \in OptionInputs :
           LET r == importData(localStorage, data, options)
           IN  /\ localStorage' = r.ls
               /\ Returned("importData", <<data, options>>, r.ret, r.threw)
               /\ UNCHANGED <<cacheCases, cacheActiveCase, now, nextId>>

\* SPECTRE_STORAGE.addFavorite(tool, categoryId)
AddFavorite ==
    /\ calls < MaxImportCalls
    /\ \E tool \in ToolInputs :
           LET r == addFavorite(localStorage, tool, "people", now)
           IN  /\ localStorage' = r.ls
               /\ Returned("addFavorite", <<tool, "people">>, r.ret, r.threw)
               /\ UNCHANGED <<cacheCases, cacheActiveCase, now, nextId>>

NextImport ==
    \/ StoreAnswers
    \/ ImportData
    \/ AddFavorite

SpecImport == InitImport /\ [][NextImport]_vars

----------------------------------------------------------------------------
(* Two instances of the page (tabs) over one browser store                  *)

\* the explored runs of SpecTabs make at most MaxTabCalls public calls
MaxTabCalls == 3

\* a second instance of the page is opened: it loads over the shared store
\* and gets the focus, the first one keeps its caches
OpenTab ==
    /\ background = <<>>
    /\ frames = <<>>
    /\ background' = <<Instance(World)>>
    /\ Install(PageLoaded(World))
    /\ UNCHANGED <<now, nextId, call, calls, frames>>

\* the focus goes to the other instance
SwitchTab ==
    /\ background # <<>>
    /\ background' = <<Instance(World)>>
    /\ Install(WorldOf(background[1], localStorage))
    /\ UNCHANGED <<now, nextId, call, calls, frames>>

\* the calls made in the instance that has the focus
TabCall ==
    \/ PageLoad
    \/ CreateCase
    \/ UpdateCase
    \/ DeleteCase
    \/ SetActiveCase
    \/ AddFinding

NextTabs ==
    \/ OpenTab
    \/ SwitchTab
    \/ (calls < MaxTabCalls /\ TabCall)

SpecTabs == Init /\ [][NextTabs]_vars

----------------------------------------------------------------------------
(* The case manager called before its init() has run: the script is loaded  *)
(* while the document is still loading, or as a module                     *)

\* the explored runs of SpecCold make at most MaxColdCalls public calls
MaxColdCalls == 2

\* the SPECTRE_CASES literal has been built, with null caches, over the
\* store of a previous session
InitCold ==
    /\ \E k \in 1..MAX_CASES :
         \E caseId \in {<<>>} \cup {<<i>> : i \in 1..k} :
            LET w == setActiveCase(StoreAfter(k), caseId)
            IN  /\ cacheCases = <<>>
                /\ cacheActiveCase = <<>>
                /\ localStorage = StorageInit(w.ls)
                /\ nextId = k + 1
    /\ now = 1
    /\ call = [name |-> "load", args |-> <<>>, ret |-> <<>>, threw |-> FALSE]
    /\ calls = 0
    /\ background = <<>>
    /\ frames = <<>>

ColdCall ==
    \/ InitCall
    \/ UpdateCase
    \/ SaveSearchToCase
    \/ SetToolStatus
    \/ AddFinding
    \/ UpdateFinding
    \/ DeleteFinding
    \/ AddNote
    \/ DeleteNote

NextCold ==
    \/ Tick
    \/ (calls < MaxColdCalls /\ ColdCall)

SpecCold == InitCold /\ [][NextCold]_vars

----------------------------------------------------------------------------
(* formatSearchSummary over the values of the search form                   *)

SummaryKeys == {"first", "last", "username", "email", "domain", "phone", "ip"}

\* what the form holds in the field k when it is filled in
Filled(k) ==
    CASE k = "first" -> "John"
      [] k = "last" -> "Doe"
      [] k = "username" -> "jdoe"
      [] k = "email" -> "a@b.com"
      [] k = "domain" -> "b.com"
      [] k = "phone" -> "555"
      [] k = "ip" -> "10.0.0.1"

\* the values of a form of which the fields of `filled` are filled in and
\* the others are empty, and the values that name the filled fields only
SummaryInputs ==
    {[k \in SummaryKeys |-> IF k \in filled THEN Filled(k) ELSE ""] :
        filled \in SUBSET SummaryKeys}
    \cup {[k \in filled |-> Filled(k)] : filled \in SUBSET {"first", "last", "email"}}

FormatSearchSummary ==
    /\ Budget
    /\ \E values \in SummaryInputs :
           /\ Called("formatSearchSummary", <<values>>, formatSearchSummary(values))
           /\ UNCHANGED <<cacheCases, cacheActiveCase, localStorage, now, nextId>>

NextSummary ==
    \/ Tick
    \/ FormatSearchSummary

SpecSummary == Init /\ [][NextSummary]_vars

----------------------------------------------------------------------------
(* SPECTRE_STORAGE.set step by step: set and handleQuotaExceeded call each  *)
(* other.  A frame of frames is an invocation of set: the key and the value *)
(* it was given, the adapter it was called on (entry), where it stands (pc) *)
(* and what it returns (ret):                                               *)
(*   "setItem"              about to call localStorage.setItem in its try   *)
(*   "handleQuotaExceeded"  in its catch, about to call handleQuotaExceeded *)
(*   "return"               about to return                                 *)

\* the explored runs of SpecQuota make at most MaxQuotaCalls calls of set
MaxQuotaCalls == 2

\* the number of nested invocations the script engine's stack has room for
\* (scaled down): the call beyond it throws a RangeError
StackLimit == 5

\* the lengths of the search history a previous session left
QuotaHistoryLengths == {0, QUOTA_KEEP, QUOTA_KEEP + 1, MAX_HISTORY}

InitQuota ==
    /\ \E n \in QuotaHistoryLengths, mode \in StoreModes :
           LET w0 == StoreAfter(0)
               w == PageLoaded([w0 EXCEPT !.ls =
                        StorageSet(w0.ls, KEY_HISTORY, HistoryOf(n))])
           IN  /\ cacheCases = w.cases
               /\ cacheActiveCase = w.activeCase
               /\ localStorage = [w.ls EXCEPT !.setItem = mode]
    /\ nextId = 1
    /\ now = 1
    /\ call = [name |-> "load", args |-> <<>>, ret |-> <<>>, threw |-> FALSE]
    /\ calls = 0
    /\ background = <<>>
    /\ frames = <<>>

\* set(key, value) is called: by setTheme, or with the history by the
\* functions that rewrite it
SetBegins ==
    /\ frames = <<>>
    /\ calls < MaxQuotaCalls
    /\ \E key \in {KEY_THEME, KEY_HISTORY} :
           LET value == IF key = KEY_THEME THEN "light" ELSE getHistory(localStorage)
           IN  /\ frames' = <<[key |-> key, value |-> value, pc |-> "setItem",
                               ret |-> FALSE, entry |-> localStorage]>>
               /\ call' = [name |-> "set", args |-> <<key, value>>, ret |-> FALSE,
                           threw |-> FALSE]
    /\ UNCHANGED <<cacheCases, cacheActiveCase, localStorage, now, nextId, calls,
                   background>>

\* the try of the innermost set: localStorage.setItem(key, JSON.stringify(value))
SetItem ==
    /\ frames # <<>>
    /\ frames[Len(frames)].pc = "setItem"
    /\ LET top == frames[Len(frames)]
           text == JSONstringify(top.value)
           err == SetItemThrows(localStorage, top.key, text)
       IN  /\ localStorage' = IF err = ""
                              THEN [localStorage EXCEPT !.items[top.key] = <<text>>]
                              ELSE localStorage
           /\ frames' = [frames EXCEPT ![Len(frames)] =
                  IF err = "" THEN [top EXCEPT !.pc = "return", !.ret = TRUE]
                  ELSE IF err = "QuotaExceededError"
                  THEN [top EXCEPT !.pc = "handleQuotaExceeded"]
                  ELSE [top EXCEPT !.pc = "return"]]
    /\ UNCHANGED <<cacheCases, cacheActiveCase, now, nextId, call, calls, background>>

\* the catch of the innermost set calls handleQuotaExceeded, which cuts a
\* history of more than QUOTA_KEEP entries and calls set with it; on a full
\* stack that call throws a RangeError, which leaves every pending set
\* (each of them is in its catch)
HandleQuotaExceeded ==
    /\ frames # <<>>
    /\ frames[Len(frames)].pc = "handleQuotaExceeded"
    /\ LET history == getHistory(localStorage)
           kept == FirstHalf(history)
           returning == [frames EXCEPT ![Len(frames)].pc = "return"]
       IN  IF Len(history) <= QUOTA_KEEP
           THEN /\ frames' = returning
                /\ UNCHANGED <<localStorage, call, calls>>
           ELSE IF Len(frames) < StackLimit
           THEN /\ localStorage' = [localStorage EXCEPT !.history = <<kept>>]
                /\ frames' = Append(returning,
                                    [key |-> KEY_HISTORY, value |-> kept,
                                     pc |-> "setItem", ret |-> FALSE,
                                     entry |-> localStorage'])
                /\ UNCHANGED <<call, calls>>
           ELSE /\ localStorage' = [localStorage EXCEPT !.history = <<kept>>]
                /\ frames' = <<>>
                /\ call' = [call EXCEPT !.threw = TRUE]
                /\ calls' = calls + 1
    /\ UNCHANGED <<cacheCases, cacheActiveCase, now, nextId, background>>

\* the innermost set returns, to handleQuotaExceeded or to the caller
SetReturns ==
    /\ frames # <<>>
    /\ frames[Len(frames)].pc = "return"
    /\ frames' = SubSeq(frames, 1, Len(frames) - 1)
    /\ IF Len(frames) = 1
       THEN /\ call' = [call EXCEPT !.ret = frames[1].ret]
            /\ calls' = calls + 1
       ELSE UNCHANGED <<call, calls>>
    /\ UNCHANGED <<cacheCases, cacheActiveCase, localStorage, now, nextId, background>>

SetRuns == SetItem \/ HandleQuotaExceeded \/ SetReturns

NextQuota ==
    \/ (frames = <<>> /\ StoreAnswers)
    \/ SetBegins
    \/ SetItem
    \/ HandleQuotaExceeded
    \/ SetReturns

SpecQuota == InitQuota /\ [][NextQuota]_vars

\* a call that has begun runs on: the script is not interrupted
SpecQuotaRuns == SpecQuota /\ WF_frames(SetRuns)

----------------------------------------------------------------------------
(* Vocabulary of the properties                                             *)

\* getAllCases(), getActiveCase() and the persisted values, in this state
Cases == getAllCases(World)
ActiveCase == getActiveCase(World)
PersistedCases == StorageGet(localStorage, KEY_CASES, <<>>)
PersistedActiveId == StorageGet(localStorage, KEY_ACTIVE_CASE, MissingId)

Listed(caseId) == \E i \in 1..Len(Cases) : Cases[i].id = caseId

\* this step is the public call `name`
Calls(name) == calls' = calls + 1 /\ call'.name = name

\* the call of this state returned an object / true
ReturnedObject(c) == Len(c.ret) = 1

----------------------------------------------------------------------------
\* C1: in every reachable state getActiveCase() is none or a case whose id is
\* in getAllCases(), and the persisted active-case id is absent or the id of
\* a listed case; so after createCase evicts the active case getActiveCase()
\* is none.
C1_ActiveCaseIsListed ==
    /\ Len(ActiveCase) = 1 => Listed(ActiveCase[1].id)
    /\ PersistedActiveId # MissingId => Listed(PersistedActiveId)

----------------------------------------------------------------------------
\* C2: every successful addFinding leaves the case with the last
\* MAX_FINDINGS_PER_CASE of its former findings followed by the new one, in
\* insertion order: an overflowing call removes exactly the single oldest
\* finding; and no listed case ever holds more than MAX_FINDINGS_PER_CASE.
C2_AddFindingStep ==
    (Calls("addFinding") /\ ReturnedObject(call'))
    => LET i == findIndex(Cases, call'.args[1])
           before == Cases[i].findings
           after == Cases'[i].findings
           added == Append(before, call'.ret[1])
       IN  /\ Len(after) <= MAX_FINDINGS_PER_CASE
           /\ Len(before) < MAX_FINDINGS_PER_CASE => after = added
           /\ Len(before) = MAX_FINDINGS_PER_CASE => after = Tail(added)

C2_FindingsCap ==
    /\ [](\A i \in 1..Len(Cases) : Len(Cases[i].findings) <= MAX_FINDINGS_PER_CASE)
    /\ [][C2_AddFindingStep]_vars

\* every id held by a listed case, its findings, notes and searches
HeldIds ==
    UNION {{Cases[i].id}
           \cup {Cases[i].findings[j].id : j \in 1..Len(Cases[i].findings)}
           \cup {Cases[i].notes[j].id : j \in 1..Len(Cases[i].notes)}
           \cup {Cases[i].searches[j].id : j \in 1..Len(Cases[i].searches)} :
           i \in 1..Len(Cases)}
    \cup {ActiveCase[i].id : i \in 1..Len(ActiveCase)}

\* an addFinding has just overflowed: the case holds the MAX_FINDINGS_PER_CASE
\* ids handed out last, and the id handed out before them, by a call that can
\* only have been an addFinding on this case, is held nowhere any more
C2_Witness ==
    /\ call.name = "addFinding" /\ ReturnedObject(call)
    /\ calls = MAX_FINDINGS_PER_CASE + 1
    /\ \E i \in 1..Len(Cases) :
          /\ Cases[i].id = call.args[1]
          /\ Len(Cases[i].findings) = MAX_FINDINGS_PER_CASE
          /\ \A j \in 1..MAX_FINDINGS_PER_CASE :
                Cases[i].findings[j].id = nextId - MAX_FINDINGS_PER_CASE - 1 + j
          /\ Cases[i].findings[MAX_FINDINGS_PER_CASE] = call.ret[1]
    /\ (nextId - MAX_FINDINGS_PER_CASE - 1) \notin HeldIds
    /\ \A i \in 1..Len(Cases) : Cases[i].id < nextId - MAX_FINDINGS_PER_CASE - 1

----------------------------------------------------------------------------
\* the last n elements of seq, all of it when it has fewer
KeepLast(seq, n) ==
    [k \in 1..(IF Len(seq) < n THEN Len(seq) ELSE n) |->
        seq[k + (IF Len(seq) < n THEN 0 ELSE Len(seq) - n)]]

\* the call c reported success: true for the boolean calls, an object for
\* the others
Succeeded(c) ==
    IF c.name \in {"setToolStatus", "deleteCase", "deleteFinding", "deleteNote"}
    THEN c.ret = TRUE
    ELSE Len(c.ret) = 1

\* the id of the case this step's call works on: the active case for
\* saveSearchToCase, its first argument for the calls that take a case id
TargetId ==
    IF call'.name = "saveSearchToCase"
    THEN (IF Len(ActiveCase) = 1 THEN ActiveCase[1].id ELSE MissingId)
    ELSE IF call'.name \in {"getCase", "updateCase", "deleteCase", "setToolStatus",
                            "addFinding", "updateFinding", "deleteFinding",
                            "addNote", "deleteNote", "exportCase"}
    THEN call'.args[1]
    ELSE MissingId

\* the type of the timeline event each mutator appends
EventTypeOf(name) ==
    CASE name = "saveSearchToCase" -> "search"
      [] name = "setToolStatus" -> "status"
      [] name = "addFinding" -> "finding"
      [] name = "addNote" -> "note"

\* C3: a listed case's timeline changes only by a successful saveSearchToCase,
\* setToolStatus, addFinding or addNote on it, which appends one event and
\* keeps the last MAX_TIMELINE; so after n events (the creation event
\* included) it holds the last min(n, MAX_TIMELINE) of them in insertion
\* order, and it is never longer than MAX_TIMELINE.
C3_TimelineStep ==
    \A i \in 1..Len(Cases) : \A j \in 1..Len(Cases') :
        Cases[i].id = Cases'[j].id =>
            IF /\ calls' = calls + 1
               /\ call'.name \in {"saveSearchToCase", "setToolStatus",
                                  "addFinding", "addNote"}
               /\ Succeeded(call')
               /\ TargetId = Cases[i].id
            THEN LET after == Cases'[j].timeline
                     event == after[Len(after)]
                 IN  /\ event.type = EventTypeOf(call'.name)
                     /\ event.timestamp = now
                     /\ after = KeepLast(Append(Cases[i].timeline, event),
                                         MAX_TIMELINE)
            ELSE Cases'[j].timeline = Cases[i].timeline

C3_TimelineWindow ==
    /\ [](\A i \in 1..Len(Cases) :
             /\ Len(Cases[i].timeline) <= MAX_TIMELINE
             /\ Len(Cases[i].timeline) >= 1)
    /\ [][Calls("createCase") =>
             /\ Len(call'.ret.timeline) = 1
             /\ call'.ret.timeline[1].type = "created"]_vars
    /\ [][C3_TimelineStep]_vars

\* a mutator has just pushed the creation event out of a full timeline
C3_Witness ==
    /\ call.name \in {"saveSearchToCase", "setToolStatus", "addFinding", "addNote"}
    /\ Succeeded(call)
    /\ \E i \in 1..Len(Cases) :
          /\ call.name # "saveSearchToCase" => Cases[i].id = call.args[1]
          /\ call.name = "saveSearchToCase" =>
                Cases[i].searches # <<>> /\
                Cases[i].searches[Len(Cases[i].searches)] = call.ret[1]
          /\ Len(Cases[i].timeline) = MAX_TIMELINE
          /\ Cases[i].timeline[1].type # "created"
          /\ Cases[i].timeline[MAX_TIMELINE].type = EventTypeOf(call.name)

----------------------------------------------------------------------------
\* C4: getAllCases() never holds more than MAX_CASES cases and lists them
\* newest-created first (ids are handed out in creation order); createCase
\* puts the new case at the head, and on a full collection removes exactly
\* the tail, leaving MAX_CASES persisted cases; updateCase and deleteCase keep
\* the order of the cases that stay.
C4_Ordered ==
    /\ Len(Cases) <= MAX_CASES
    /\ Len(PersistedCases) <= MAX_CASES
    /\ \A i, j \in 1..Len(Cases) :
          i < j => /\ Cases[i].id > Cases[j].id
                   /\ Cases[i].createdAt >= Cases[j].createdAt

CaseIds(cases) == [i \in 1..Len(cases) |-> cases[i].id]

C4_Step ==
    /\ Calls("createCase") =>
          /\ Cases' = <<call'.ret>> \o
                      (IF Len(Cases) = MAX_CASES
                       THEN SubSeq(Cases, 1, MAX_CASES - 1) ELSE Cases)
          /\ PersistedCases' = Cases'
          /\ Len(Cases) = MAX_CASES => Len(PersistedCases') = MAX_CASES
    /\ Calls("updateCase") => CaseIds(Cases') = CaseIds(Cases)
    /\ (Calls("deleteCase") /\ Succeeded(call')) =>
          \E i \in 1..Len(Cases) :
              /\ Cases[i].id = call'.args[1]
              /\ Cases' = SubSeq(Cases, 1, i - 1) \o SubSeq(Cases, i + 1, Len(Cases))

C4_CaseCap == []C4_Ordered /\ [][C4_Step]_vars

\* the first call of the session was a createCase on a full collection: the
\* new case is the head and the case created first is gone
C4_Witness ==
    /\ calls = 1 /\ call.name = "createCase"
    /\ nextId = MAX_CASES + 2
    /\ Len(Cases) = MAX_CASES /\ Len(PersistedCases) = MAX_CASES
    /\ Cases[1] = call.ret
    /\ ~Listed(1)

----------------------------------------------------------------------------
\* C5: when getActiveCase().id is X, deleteCase(X) returns true, removes X
\* from the collection, makes getActiveCase() none and removes the persisted
\* active-case id; deleteCase(Y) of a listed Y other than X leaves
\* getActiveCase() as it was.
C5_Step ==
    Calls("deleteCase") =>
        LET X == call'.args[1]
            active == Len(ActiveCase) = 1 /\ ActiveCase[1].id = X
        IN  /\ active =>
                /\ call'.ret = TRUE
                /\ \A i \in 1..Len(Cases') : Cases'[i].id # X
                /\ Len(ActiveCase') = 0
                /\ PersistedActiveId' = MissingId
            /\ (~active /\ Listed(X)) => ActiveCase' = ActiveCase

C5_DeleteClearsActive == [][C5_Step]_vars

\* C5, with the active case a listed one: the case of C5 that createCase's
\* eviction of the active case does not reach
C5_WhenActiveListed ==
    [][(Len(ActiveCase) = 1 => Listed(ActiveCase[1].id)) => C5_Step]_vars

----------------------------------------------------------------------------
\* the five statuses the data model defines
DefinedStatuses == {"unchecked", "useful", "dead-end", "follow-up", "in-progress"}

WorldUnchanged ==
    /\ cacheCases' = cacheCases
    /\ cacheActiveCase' = cacheActiveCase
    /\ localStorage' = localStorage

\* C6: setToolStatus(caseId, toolId, status) returns true exactly when status
\* is one of the five defined statuses and the case is listed; then
\* toolStatuses[toolId] is status and every other entry is as before; for any
\* other status it returns false and changes nothing, in memory or persisted.
C6_Step ==
    Calls("setToolStatus") =>
        LET caseId == call'.args[1]
            toolId == call'.args[2]
            status == call'.args[3]
            i == findIndex(Cases, caseId)
        IN  /\ call'.ret = (status \in DefinedStatuses /\ Listed(caseId))
            /\ call'.ret = TRUE =>
                  LET before == Cases[i].toolStatuses
                      after == Cases'[i].toolStatuses
                  IN  /\ Cases'[i].id = caseId
                      /\ DOMAIN after = (DOMAIN before) \cup {toolId}
                      /\ after[toolId] = status
                      /\ \A k \in (DOMAIN before) \ {toolId} : after[k] = before[k]
                      /\ PersistedCases' = Cases'
            /\ status \notin DefinedStatuses => WorldUnchanged

C6_SetToolStatus == [][C6_Step]_vars

\* a status has just been set for one tool of a case that already had the
\* status of another tool
C6_Witness ==
    /\ call.name = "setToolStatus" /\ call.ret = TRUE
    /\ \E i \in 1..Len(Cases) :
          /\ Cases[i].id = call.args[1]
          /\ Cases[i].toolStatuses[call.args[2]] = call.args[3]
          /\ (DOMAIN Cases[i].toolStatuses) \ {call.args[2]} # {}

----------------------------------------------------------------------------
\* C7: in every reachable state every value of every listed case's
\* toolStatuses is one of the five defined statuses.
C7_StatusesDefined ==
    \A i \in 1..Len(Cases) :
        \A k \in DOMAIN Cases[i].toolStatuses :
            Cases[i].toolStatuses[k] \in DefinedStatuses

----------------------------------------------------------------------------
Mutators ==
    {"updateCase", "saveSearchToCase", "setToolStatus", "addFinding",
     "updateFinding", "deleteFinding", "addNote", "deleteNote"}

\* C8: a mutator that reports success leaves the case it worked on (for
\* saveSearchToCase the case getActiveCase() returns) with updatedAt equal to
\* the time of the call, whatever updatedAt the update fields carry; a
\* mutator that fails changes no updatedAt.
C8_Step ==
    (calls' = calls + 1 /\ call'.name \in Mutators) =>
        IF Succeeded(call')
        THEN IF call'.name = "saveSearchToCase"
             THEN Len(ActiveCase') = 1 /\ ActiveCase'[1].updatedAt = now
             ELSE \E i \in 1..Len(Cases') :
                     Cases'[i].id = TargetId /\ Cases'[i].updatedAt = now
        ELSE /\ Len(Cases') = Len(Cases)
             /\ \A i \in 1..Len(Cases) : Cases'[i].updatedAt = Cases[i].updatedAt
             /\ Len(ActiveCase) = 1 =>
                   Len(ActiveCase') = 1 /\
                   ActiveCase'[1].updatedAt = ActiveCase[1].updatedAt

C8_UpdatedAtRefreshed == [][C8_Step]_vars

\* C8, with the active case a listed one
C8_WhenActiveListed ==
    [][(Len(ActiveCase) = 1 => Listed(ActiveCase[1].id)) => C8_Step]_vars

----------------------------------------------------------------------------
\* C9: no updateCase and no mutator changes the id or the createdAt of a
\* listed case.
C9_Step ==
    (calls' = calls + 1 /\ call'.name \in Mutators) =>
        /\ Len(Cases') = Len(Cases)
        /\ \A i \in 1..Len(Cases) :
              /\ Cases'[i].id = Cases[i].id
              /\ Cases'[i].createdAt = Cases[i].createdAt

C9_IdentityKept == [][C9_Step]_vars

----------------------------------------------------------------------------
\* the call of this step names a case that is not listed, or a finding or a
\* note that the named case does not hold
NotFoundCall ==
    /\ calls' = calls + 1
    /\ call'.name \in {"getCase", "updateCase", "deleteCase", "setToolStatus",
                       "addFinding", "updateFinding", "deleteFinding",
                       "addNote", "deleteNote", "exportCase"}
    /\ \/ ~Listed(call'.args[1])
       \/ /\ call'.name \in {"updateFinding", "deleteFinding"}
          /\ \A i \in 1..Len(Cases) :
                Cases[i].id = call'.args[1] =>
                    \A j \in 1..Len(Cases[i].findings) :
                        Cases[i].findings[j].id # call'.args[2]
       \/ /\ call'.name = "deleteNote"
          /\ \A i \in 1..Len(Cases) :
                Cases[i].id = call'.args[1] =>
                    \A j \in 1..Len(Cases[i].notes) :
                        Cases[i].notes[j].id # call'.args[2]

\* C10: a call given a case, finding or note id that does not exist returns
\* null or false, does not throw, and leaves the cached collection, the
\* active case and the persisted store as they were.
C10_Step ==
    NotFoundCall =>
        /\ ~Succeeded(call')
        /\ call'.threw = FALSE
        /\ WorldUnchanged

C10_NotFound == [][C10_Step]_vars

\* deleteFinding has just been refused for a finding id that the named,
\* listed case does not hold, while it holds another finding
C10_Witness ==
    /\ call.name = "deleteFinding" /\ call.ret = FALSE
    /\ \E i \in 1..Len(Cases) :
          /\ Cases[i].id = call.args[1]
          /\ Len(Cases[i].findings) > 0
          /\ \A j \in 1..Len(Cases[i].findings) :
                Cases[i].findings[j].id # call.args[2]

----------------------------------------------------------------------------
\* the calls of the case manager that write to the store
Writers ==
    {"createCase", "updateCase", "deleteCase", "setActiveCase",
     "saveSearchToCase", "setToolStatus", "addFinding", "updateFinding",
     "deleteFinding", "addNote", "deleteNote"}

\* what the call (name, args) does when it is made in the world w at this
\* state's time: the world after it and the value it returns
Perform(w, name, args) ==
        CASE name = "createCase" -> createCase(w, args[1], nextId, now)
          [] name = "updateCase" -> updateCase(w, args[1], args[2], now)
          [] name = "deleteCase" -> deleteCase(w, args[1])
          [] name = "setActiveCase" ->
                [w |-> setActiveCase(w, args[1]), ret |-> <<>>]
          [] name = "saveSearchToCase" ->
                saveSearchToCase(w, args[1], args[2], nextId, now)
          [] name = "setToolStatus" ->
                setToolStatus(w, args[1], args[2], args[3], now)
          [] name = "addFinding" -> addFinding(w, args[1], args[2], nextId, now)
          [] name = "updateFinding" ->
                updateFinding(w, args[1], args[2], args[3], now)
          [] name = "deleteFinding" -> deleteFinding(w, args[1], args[2], now)
          [] name = "addNote" -> addNote(w, args[1], args[2], nextId, now)
          [] name = "deleteNote" -> deleteNote(w, args[1], args[2], now)

\* what the call (name, args) does, from this state, when the browser's
\* store accepts every write
OnAcceptingStore(name, args) ==
    Perform([World EXCEPT !.ls.setItem = "accepts"], name, args)

\* the item the call would put under key on an accepting store is a new
\* text, and the browser's store, as it is, throws on that write
WriteRejected(r, key) ==
    /\ Len(r.w.ls.items[key]) = 1
    /\ r.w.ls.items[key] # localStorage.items[key]
    /\ SetItemThrows(localStorage, key, r.w.ls.items[key][1]) # ""

\* C11: when the browser's store rejects a write, SPECTRE_STORAGE.set
\* returns false, does not throw and stores nothing; a case operation whose
\* write is rejected still completes, returns what it returns on an accepting
\* store and leaves the same cached collection and active case, and the
\* persisted case collection stays as it was.
C11_Step ==
    /\ Calls("set") =>
          /\ call'.threw = FALSE
          /\ call'.ret = (localStorage.setItem = "accepts")
          /\ localStorage'.items[call'.args[1]] =
                IF localStorage.setItem = "accepts"
                THEN <<JSONstringify(call'.args[2])>>
                ELSE localStorage.items[call'.args[1]]
    /\ (calls' = calls + 1 /\ call'.name \in Writers) =>
          LET r == OnAcceptingStore(call'.name, call'.args)
          IN  (WriteRejected(r, KEY_CASES) \/ WriteRejected(r, KEY_ACTIVE_CASE)) =>
                /\ call'.threw = FALSE
                /\ call'.ret = r.ret
                /\ cacheCases' = r.w.cases
                /\ cacheActiveCase' = r.w.activeCase
                /\ WriteRejected(r, KEY_CASES) =>
                      localStorage'.items[KEY_CASES] = localStorage.items[KEY_CASES]
                /\ WriteRejected(r, KEY_ACTIVE_CASE) =>
                      localStorage'.items[KEY_ACTIVE_CASE] =
                          localStorage.items[KEY_ACTIVE_CASE]

C11_WriteRejected == [][C11_Step]_vars

\* updateFinding has just returned the edited finding, which the cached case
\* holds and the persisted case, written before the store closed, does not
C11_Witness ==
    /\ call.name = "updateFinding" /\ Len(call.ret) = 1
    /\ localStorage.setItem \in {"closed", "legacy", "full"}
    /\ \E i \in 1..Len(Cases) :
          /\ Cases[i].id = call.args[1]
          /\ \E j \in 1..Len(Cases[i].findings) : Cases[i].findings[j] = call.ret[1]
    /\ \E i \in 1..Len(PersistedCases) :
          /\ PersistedCases[i].id = call.args[1]
          /\ \E j \in 1..Len(PersistedCases[i].findings) :
                /\ PersistedCases[i].findings[j].id = call.ret[1].id
                /\ PersistedCases[i].findings[j] # call.ret[1]

----------------------------------------------------------------------------
\* C12: SPECTRE_STORAGE.get(key, defaultValue) does not throw; it returns
\* defaultValue when the item is absent or its text is not JSON, and otherwise
\* the value the text is the JSON of; and a page load that reads a missing or
\* unparsable cases item leaves getAllCases() the empty list.
C12_Step ==
    /\ Calls("get") =>
          LET item == localStorage.items[call'.args[1]]
          IN  /\ call'.threw = FALSE
              /\ IF item = <<>> \/ item = <<CorruptText>>
                 THEN call'.ret = call'.args[2]
                 ELSE <<JSONstringify(call'.ret)>> = item
              /\ WorldUnchanged
    /\ Calls("load") =>
          LET item == localStorage.items[KEY_CASES]
          IN  /\ call'.threw = FALSE
              /\ (item = <<>> \/ item = <<CorruptText>>) => Cases' = <<>>

C12_GetDefault == [][C12_Step]_vars

\* the page has just been loaded on a store whose cases item a previous
\* session wrote and that has since been damaged
C12_Witness ==
    /\ call.name = "load" /\ calls > 0
    /\ localStorage.items[KEY_CASES] = <<CorruptText>>
    /\ localStorage.items[KEY_ACTIVE_CASE] # <<>>
    /\ Cases = <<>>

----------------------------------------------------------------------------
\* the search history in memory and as persisted
History == getHistory(localStorage)
PersistedHistory == StorageGet(localStorage, KEY_HISTORY, <<>>)

\* this step is a call whose write the browser's store rejects with
\* QuotaExceededError
QuotaRejected ==
    \/ Calls("set") /\ localStorage.setItem \in {"full", "closed"}
    \/ /\ calls' = calls + 1 /\ call'.name \in Writers
       /\ LET r == OnAcceptingStore(call'.name, call'.args)
          IN  \E key \in {KEY_CASES, KEY_ACTIVE_CASE} :
                 /\ WriteRejected(r, key)
                 /\ SetItemThrows(localStorage, key, r.w.ls.items[key][1])
                        = "QuotaExceededError"

\* the remediation, after a write rejected for quota with n entries in the
\* history; the cases and the active case, cached and persisted, are what the
\* call alone leaves
C13_Remedy ==
    LET n == Len(History)
    IN  /\ n > QUOTA_KEEP =>
              /\ History' = SubSeq(History, 1, n \div 2)
              /\ PersistedHistory' = SubSeq(History, 1, n \div 2)
        /\ n <= QUOTA_KEEP =>
              /\ History' = History
              /\ PersistedHistory' = PersistedHistory
        /\ Calls("set") =>
              /\ UNCHANGED <<cacheCases, cacheActiveCase>>
              /\ \A key \in {KEY_CASES, KEY_ACTIVE_CASE} :
                    localStorage'.items[key] = localStorage.items[key]
        /\ ~Calls("set") =>
              LET r == OnAcceptingStore(call'.name, call'.args)
              IN  /\ cacheCases' = r.w.cases
                  /\ cacheActiveCase' = r.w.activeCase
                  /\ \A key \in {KEY_CASES, KEY_ACTIVE_CASE} :
                        localStorage'.items[key] =
                            IF WriteRejected(r, key) THEN localStorage.items[key]
                            ELSE r.w.ls.items[key]

\* C13: when a write fails with QuotaExceededError and the search history has
\* n > 10 entries, the history in memory and the persisted history are then
\* the first floor(n/2) entries; with n <= 10 the history is unchanged; the
\* persisted cases and active-case id are not altered.
C13_Step == QuotaRejected => C13_Remedy

C13_QuotaHalvesHistory == [][C13_Step]_vars

\* C13, on a store that is full but takes a shorter list in place of a
\* longer one: the write of the halved history is accepted
C13_WhenStoreHasRoom ==
    [][(QuotaRejected /\ localStorage.setItem = "full") => C13_Remedy]_vars

----------------------------------------------------------------------------
\* C14: a saveSearchToCase that returns a snapshot leaves the case
\* getActiveCase() returned, as getActiveCase() and (when listed) the list
\* hold it, with its former searches followed by that one snapshot, whose
\* toolCount is the number of links passed and whose links are the passed
\* links in order, each reduced to id, name, url, badge and category.
C14_Step ==
    (Calls("saveSearchToCase") /\ ReturnedObject(call')) =>
        LET target == ActiveCase[1]
            snapshot == call'.ret[1]
            links == call'.args[2]
        IN  /\ Len(ActiveCase') = 1
            /\ ActiveCase'[1].id = target.id
            /\ ActiveCase'[1].searches = Append(target.searches, snapshot)
            /\ \A i \in 1..Len(Cases') :
                  Cases'[i].id = target.id =>
                      Cases'[i].searches = Append(target.searches, snapshot)
            /\ snapshot.toolCount = Len(links)
            /\ Len(snapshot.links) = Len(links)
            /\ \A i \in 1..Len(links) :
                  snapshot.links[i] =
                      [id |-> links[i].id, name |-> links[i].name,
                       url |-> links[i].url, badge |-> links[i].badge,
                       category |-> links[i].category]

C14_SnapshotAppended == [][C14_Step]_vars

\* a search with two links has just been saved to a listed case that already
\* held a snapshot
C14_Witness ==
    /\ call.name = "saveSearchToCase" /\ ReturnedObject(call)
    /\ Len(call.args[2]) = 2
    /\ Len(ActiveCase) = 1 /\ Listed(ActiveCase[1].id)
    /\ Len(ActiveCase[1].searches) = 2
    /\ ActiveCase[1].searches[2] = call.ret[1]
    /\ ActiveCase[1].searches[1].id # call.ret[1].id

----------------------------------------------------------------------------
\* the headings of the Markdown export, in the order of the export
ImportanceOrder == <<"critical", "high", "medium", "low">>

PriorityHeadings ==
    <<"### Critical Priority", "### High Priority", "### Medium Priority",
      "### Low Priority">>

IsPriorityHeading(line) ==
    \E k \in 1..Len(PriorityHeadings) : line[1] = PriorityHeadings[k]

\* the titles of the '#### ' lines of md[i..] that stand under the priority
\* heading h, in order; cur is the priority heading last passed ("" if none)
RECURSIVE TitlesUnder(_, _, _, _)
TitlesUnder(md, i, h, cur) ==
    IF i > Len(md) THEN <<>>
    ELSE LET here == IF IsPriorityHeading(md[i]) THEN md[i][1] ELSE cur
         IN  (IF md[i][1] = "#### " /\ here = h THEN <<md[i][2]>> ELSE <<>>)
             \o TitlesUnder(md, i + 1, h, here)

\* the titles of the findings of the given importance, in the case's order
RECURSIVE TitlesOf(_, _)
TitlesOf(findings, importance) ==
    IF Len(findings) = 0 THEN <<>>
    ELSE (IF Head(findings).importance = importance
          THEN <<Head(findings).title>> ELSE <<>>)
         \o TitlesOf(Tail(findings), importance)

\* the priority headings of md, in order
RECURSIVE HeadingsOf(_)
HeadingsOf(md) ==
    IF Len(md) = 0 THEN <<>>
    ELSE (IF IsPriorityHeading(Head(md)) THEN <<Head(md)[1]>> ELSE <<>>)
         \o HeadingsOf(Tail(md))

\* the headings of the importances that have a finding, in the fixed order
RECURSIVE HeadingsDue(_, _)
HeadingsDue(findings, k) ==
    IF k > Len(ImportanceOrder) THEN <<>>
    ELSE (IF Len(TitlesOf(findings, ImportanceOrder[k])) > 0
          THEN <<PriorityHeadings[k]>> ELSE <<>>)
         \o HeadingsDue(findings, k + 1)

\* the call of this state is a Markdown export that returned a document
MarkdownExported ==
    /\ call.name = "exportCase" /\ call.args[2] = "markdown"
    /\ ReturnedObject(call)

----------------------------------------------------------------------------
\* the call of this state is a JSON export that returned a document
JSONExported ==
    /\ call.name = "exportCase" /\ call.args[2] = "json"
    /\ ReturnedObject(call)

----------------------------------------------------------------------------
\* C17: exportCase, in any format and whatever it returns, leaves the cached
\* collection (and so the case), the cached active case and the persisted
\* store as they were.
C17_Step == Calls("exportCase") => WorldUnchanged

C17_ExportReadsOnly == [][C17_Step]_vars

\* a case whose findings are not in the order of the report has been
\* exported as HTML
C17_Witness ==
    /\ call.name = "exportCase" /\ call.args[2] = "html"
    /\ ReturnedObject(call)
    /\ LET findings == getCase(World, call.args[1])[1].findings
       IN  /\ Len(findings) = 2
           /\ findings[1].importance = "medium"
           /\ findings[2].importance = "high"

----------------------------------------------------------------------------
\* C18: setActiveCase(null) leaves getActiveCase() none and the persisted
\* active-case item removed; setActiveCase(id) for a listed case leaves
\* getActiveCase() returning that case; setActiveCase(id) for an id that is
\* not listed changes neither the cached nor the persisted active case.
C18_Step ==
    Calls("setActiveCase") =>
        LET caseId == call'.args[1]
        IN  /\ Len(caseId) = 0 =>
                  /\ ActiveCase' = <<>>
                  /\ localStorage'.items[KEY_ACTIVE_CASE] = <<>>
            /\ (Len(caseId) = 1 /\ Listed(caseId[1])) =>
                  /\ ActiveCase' = getCase(World, caseId[1])
                  /\ Len(ActiveCase') = 1
                  /\ ActiveCase'[1].id = caseId[1]
            /\ (Len(caseId) = 1 /\ ~Listed(caseId[1])) =>
                  /\ cacheActiveCase' = cacheActiveCase
                  /\ localStorage'.items[KEY_ACTIVE_CASE]
                        = localStorage.items[KEY_ACTIVE_CASE]
            /\ cacheCases' = cacheCases
            /\ localStorage'.items[KEY_CASES] = localStorage.items[KEY_CASES]

C18_SetActiveCase == [][C18_Step]_vars

\* setActiveCase has just been called with an id that is not listed while a
\* listed case is active, and that case is still the active one
C18_Witness ==
    /\ call.name = "setActiveCase"
    /\ call.args[1] = <<MissingId>>
    /\ Len(ActiveCase) = 1 /\ Listed(ActiveCase[1].id)
    /\ PersistedActiveId = ActiveCase[1].id

----------------------------------------------------------------------------
\* the priorities the data model defines
DefinedPriorities == {"low", "medium", "high", "critical"}

\* C19: createCase returns a case with status 'active', a priority among the
\* four defined ones (the one supplied, medium when none is), the supplied
\* name ('Untitled Investigation' when it is empty), no searches, findings,
\* notes or tool statuses and a timeline of exactly one event, of type
\* 'created'; and that case is the head of getAllCases().
C19_Step ==
    Calls("createCase") =>
        LET caseData == call'.args[1]
            newCase == call'.ret
            supplied(k) == k \in DOMAIN caseData /\ caseData[k] # ""
        IN  /\ newCase.status = "active"
            /\ newCase.priority \in DefinedPriorities
            /\ newCase.priority =
                  IF supplied("priority") THEN caseData.priority ELSE "medium"
            /\ newCase.name =
                  IF supplied("name") THEN caseData.name
                  ELSE "Untitled Investigation"
            /\ newCase.searches = <<>>
            /\ newCase.findings = <<>>
            /\ newCase.notes = <<>>
            /\ DOMAIN newCase.toolStatuses = {}
            /\ Len(newCase.timeline) = 1
            /\ newCase.timeline[1].type = "created"
            /\ ~Listed(newCase.id)
            /\ Len(Cases') > 0
            /\ Cases'[1] = newCase

----------------------------------------------------------------------------
\* C20: a saveFinding of the results workspace with non-empty content, while
\* getActiveCase() returns a case, leaves that case with its former findings
\* (less the oldest when it was full) followed by exactly one new finding,
\* which carries the trimmed content and the chosen importance.
C20_Step ==
    (/\ Calls("saveFinding")
     /\ trim(call'.args[1]) # ""
     /\ Len(ActiveCase) = 1) =>
        LET before == ActiveCase[1].findings
            kept == IF Len(before) = MAX_FINDINGS_PER_CASE THEN Tail(before)
                    ELSE before
        IN  /\ Len(ActiveCase') = 1
            /\ ActiveCase'[1].id = ActiveCase[1].id
            /\ Len(ActiveCase'[1].findings) = Len(kept) + 1
            /\ SubSeq(ActiveCase'[1].findings, 1, Len(kept)) = kept
            /\ LET added == ActiveCase'[1].findings[Len(kept) + 1]
               IN  /\ added.content = trim(call'.args[1])
                   /\ added.importance = call'.args[2]

C20_WorkspaceFindingSaved == [][C20_Step]_vars

----------------------------------------------------------------------------
\* the favorites in memory and as persisted (<<>> when the item is absent)
Favorites == getFavorites(localStorage)
PersistedFavorites == StorageGet(localStorage, KEY_FAVORITES, <<>>)

\* the error of the last importData was raised in the history section,
\* after the favorites section had run
RaisedInHistory(c) ==
    /\ ~IsNullValue(c.args[1])
    /\ Has(c.args[1], "favorites") /\ Has(c.args[1], "searchHistory")
    /\ c.ret.errors = <<TypeErrorMessage("display")>>

\* C21: importData does not end in an exception and records at most one
\* error; a null file or null options with a list to import are recorded as
\* an error; and when the error is raised in the history section, the
\* favorites are, in memory and in the store, what the import of the
\* favorites section alone leaves, counted in results.favorites, while the
\* history, the settings and the theme are as before the call.
C21_Step ==
    Calls("importData") =>
        LET data == call'.args[1]
            options == call'.args[2]
            results == call'.ret
            alone == importData(localStorage, [favorites |-> data.favorites], options)
        IN  /\ ~call'.threw
            /\ Len(results.errors) <= 1
            /\ IsNullValue(data) => results.errors # <<>>
            /\ (/\ ~IsNullValue(data) /\ IsNullValue(options)
                /\ (Has(data, "favorites") \/ Has(data, "searchHistory")))
                   => results.errors # <<>>
            /\ RaisedInHistory(call') =>
                  /\ alone.ret.errors = <<>>
                  /\ results.favorites = alone.ret.favorites
                  /\ localStorage'.favorites = alone.ls.favorites
                  /\ localStorage'.items[KEY_FAVORITES] = alone.ls.items[KEY_FAVORITES]
                  /\ localStorage.setItem = "accepts" =>
                         localStorage'.items[KEY_FAVORITES]
                             = <<JSONstringify(localStorage'.favorites[1])>>
                  /\ localStorage'.history = localStorage.history
                  /\ \A key \in {KEY_HISTORY, KEY_SETTINGS, KEY_THEME} :
                         localStorage'.items[key] = localStorage.items[key]
                  /\ localStorage'.settings = localStorage.settings
                  /\ results.history = 0 /\ ~results.settings

C21_ImportNeverThrows == [][C21_Step]_vars

\* a merge whose history section raised an error has left two new
\* favorites in memory and in an accepting store
C21_Witness ==
    /\ call.name = "importData"
    /\ RaisedInHistory(call)
    /\ call.ret.favorites = 2
    /\ localStorage.setItem = "accepts"
    /\ Len(Favorites) = 3
    /\ PersistedFavorites = Favorites
    /\ Favorites[3].name = "B"

----------------------------------------------------------------------------
\* the names of the favorites of a list
NamesOf(favorites) ==
    {favorites[i].name : i \in {j \in 1..Len(favorites) : ~IsNullValue(favorites[j])}}

\* an importData in merge mode of a file with favorites has completed
\* without error on a store that accepts its writes
MergedFavorites(before, c) ==
    /\ c.name = "importData"
    /\ ~IsNullValue(c.args[1]) /\ Has(c.args[1], "favorites")
    /\ ~IsNullValue(c.args[2]) /\ c.args[2].merge
    /\ c.ret.errors = <<>>
    /\ before.setItem = "accepts"

\* C30: after an importData in merge mode that completes without error,
\* results.favorites is the number of imported favorites that are in the
\* stored list and were not there before the import, and the stored list
\* has at most MAX_FAVORITES entries.
C30_Step ==
    (Calls("importData") /\ MergedFavorites(localStorage, call')) =>
        LET imported == NamesOf(call'.args[1].favorites)
            before == NamesOf(Favorites)
            after == NamesOf(Favorites')
        IN  /\ PersistedFavorites' = Favorites'
            /\ Len(Favorites') <= MAX_FAVORITES
            /\ call'.ret.favorites = Cardinality((imported \cap after) \ before)

C30_MergeCountsStored == [][C30_Step]_vars

\* the count is right when the merged list fits into MAX_FAVORITES entries
C30_WhenListFits ==
    [][(/\ Calls("importData")
        /\ Len(Favorites) + call'.ret.favorites > MAX_FAVORITES) \/ C30_Step]_vars

----------------------------------------------------------------------------
\* a case of the persisted collection that this step's call does not work
\* on is no longer in the persisted collection, or is there with other
\* contents, although the call is not a createCase on a full collection
CaseLost ==
    \E i \in 1..Len(PersistedCases) :
        /\ ~(call'.name \in Mutators \cup {"deleteCase"}
                /\ PersistedCases[i].id = TargetId)
        /\ ~(call'.name = "createCase" /\ Len(PersistedCases) >= MAX_CASES)
        /\ \A j \in 1..Len(PersistedCases') : PersistedCases'[j] # PersistedCases[i]

\* the persisted collection after this step's call is not the one the same
\* call leaves when it is made by a freshly loaded instance
WriteOverwrites ==
    /\ call'.name \in Writers
    /\ PersistedCases' #
          StorageGet(Perform(PageLoaded(World), call'.name, call'.args).w.ls,
                     KEY_CASES, <<>>)

\* C22: a call loses a persisted case, or overwrites the persisted
\* collection with another one than the call makes of it, only when a second
\* instance shares the store and the calling instance's cached collection is
\* not the persisted one; with a single instance no call does.
C22_Step ==
    (calls' = calls + 1 /\ (CaseLost \/ WriteOverwrites)) =>
        (background # <<>> /\ Cases # PersistedCases)

C22_LastWriterWins == [][C22_Step]_vars

\* after two calls the instance in the background holds the case it
\* created as "Test Case", and the createCase of the instance in front has
\* left the persisted collection, which had room, without it
C22_Witness ==
    /\ calls = 2
    /\ call.name = "createCase"
    /\ Len(background) = 1
    /\ Len(PersistedCases) < MAX_CASES
    /\ Cases = PersistedCases
    /\ \E i \in 1..Len(background[1].cases[1]) :
          /\ background[1].cases[1][i].name = "Test Case"
          /\ background[1].cases[1][i].id # call.ret.id
          /\ \A j \in 1..Len(PersistedCases) :
                 PersistedCases[j].id # background[1].cases[1][i].id

----------------------------------------------------------------------------
\* C23: on a store that accepts every write, after each public call the
\* persisted 'spectre-cases' value is the cached case collection, case by
\* case and field by field, in the same order (an absent item standing for
\* the empty collection).
C23_PersistedIsMemory ==
    /\ Len(cacheCases) = 1
    /\ cacheCases[1] = PersistedCases
    /\ Len(cacheCases[1]) # 0 =>
           localStorage.items[KEY_CASES] = <<JSONstringify(cacheCases[1])>>

\* a call has added a note to a case of a collection of two cases, whose
\* timeline it has extended
C23_Witness ==
    /\ call.name = "addNote" /\ Succeeded(call)
    /\ Len(PersistedCases) = 2
    /\ \E i \in 1..2 :
          /\ PersistedCases[i].id = call.args[1]
          /\ Len(PersistedCases[i].notes) > 0
          /\ PersistedCases[i].notes[Len(PersistedCases[i].notes)] = call.ret[1]
          /\ PersistedCases[i].timeline[Len(PersistedCases[i].timeline)].type = "note"
          /\ cacheCases[1][i] = PersistedCases[i]

----------------------------------------------------------------------------
\* C24: a mutator called for the case X (for saveSearchToCase the case
\* getActiveCase() returns) leaves the collection with as many cases, every
\* case other than X as it was and where it was, in memory and as persisted;
\* the active case stays none if it was none, stays as it was if it is
\* another case than X, and stays X, at X's place in the collection, if it is
\* X; the persisted active-case id is not written.
C24_Step ==
    (calls' = calls + 1 /\ call'.name \in Mutators) =>
        /\ Len(Cases') = Len(Cases)
        /\ \A i \in 1..Len(Cases) :
               Cases[i].id # TargetId => Cases'[i] = Cases[i]
        /\ Len(PersistedCases') = Len(PersistedCases)
        /\ \A i \in 1..Len(PersistedCases) :
               PersistedCases[i].id # TargetId => PersistedCases'[i] = PersistedCases[i]
        /\ Len(ActiveCase') = Len(ActiveCase)
        /\ (Len(ActiveCase) = 1 /\ ActiveCase[1].id # TargetId) =>
               ActiveCase' = ActiveCase
        /\ (Len(ActiveCase) = 1 /\ ActiveCase[1].id = TargetId) =>
               \A i \in 1..Len(Cases) :
                   Cases[i].id = TargetId => ActiveCase'[1] = Cases'[i]
        /\ PersistedActiveId' = PersistedActiveId

C24_MutatorFrame == [][C24_Step]_vars

\* a finding of the second of two cases has been updated while the first
\* case is the active one
C24_Witness ==
    /\ call.name = "updateFinding" /\ Succeeded(call)
    /\ Len(Cases) = 2
    /\ Cases[2].id = call.args[1]
    /\ Len(ActiveCase) = 1 /\ ActiveCase[1].id = Cases[1].id
    /\ PersistedActiveId = Cases[1].id

----------------------------------------------------------------------------
Appenders == {"saveSearchToCase", "setToolStatus", "addFinding", "addNote"}

\* C25: a successful saveSearchToCase, setToolStatus, addFinding or addNote
\* leaves the persisted timeline of its target case with one more event, of
\* the call's type, at its end (the window of MAX_TIMELINE events kept), and
\* every other call, and every call on every other case, leaves the
\* persisted timeline as it was; also when the caches are not loaded yet.
C25_Step ==
    (calls' = calls + 1) =>
        /\ (call'.name \in Appenders /\ Succeeded(call')) =>
               \E j \in 1..Len(PersistedCases') : PersistedCases'[j].id = TargetId
        /\ \A i \in 1..Len(PersistedCases) : \A j \in 1..Len(PersistedCases') :
               PersistedCases[i].id = PersistedCases'[j].id =>
                   IF /\ call'.name \in Appenders
                      /\ Succeeded(call')
                      /\ TargetId = PersistedCases[i].id
                   THEN LET after == PersistedCases'[j].timeline
                            event == after[Len(after)]
                        IN  /\ event.type = EventTypeOf(call'.name)
                            /\ event.timestamp = now
                            /\ after = KeepLast(Append(PersistedCases[i].timeline, event),
                                                MAX_TIMELINE)
                   ELSE PersistedCases'[j].timeline = PersistedCases[i].timeline

C25_TimelinePersisted == [][C25_Step]_vars

\* the same holds of the calls made once the collection is cached, on a
\* case of the collection
C25_WhenCacheLoaded ==
    [][(Len(cacheCases) = 1 /\ (call'.name = "saveSearchToCase" => Listed(TargetId)))
           => C25_Step]_vars

----------------------------------------------------------------------------
\* the parts the summary is due to join: the name (first and last in one
\* part, or the one of them that is given), the username after "@", and
\* email, domain, phone and ip as they are
PartsDue(values) ==
    LET given(k) == Prop(values, k) # ""
        part(k) == IF given(k) THEN <<<<values[k]>>>> ELSE <<>>
        name == IF given("first") /\ given("last")
                THEN <<<<values.first, " ", values.last>>>>
                ELSE part("first") \o part("last")
        username == IF given("username") THEN <<<<"@", values.username>>>> ELSE <<>>
    IN  name \o username \o part("email") \o part("domain") \o part("phone")
             \o part("ip")

\* C26: formatSearchSummary(values) joins, in the order name, username,
\* email, domain, phone, ip, a part for every one of the seven values that
\* is non-empty, and is 'Unknown' only when all seven are empty.
C26_SummaryJoinsAll ==
    call.name = "formatSearchSummary" =>
        LET values == call.args[1]
        IN  /\ (\A k \in SummaryKeys : Prop(values, k) = "") =>
                   call.ret = <<<<"Unknown">>>>
            /\ (\E k \in SummaryKeys : Prop(values, k) # "") =>
                   call.ret = PartsDue(values)

\* the summary is as claimed whenever a last name comes with a first name
C26_WhenFirstGiven ==
    (/\ call.name = "formatSearchSummary"
     /\ (Prop(call.args[1], "last") # "" => Prop(call.args[1], "first") # ""))
        => C26_SummaryJoinsAll

----------------------------------------------------------------------------
\* C27: in every state reached by calls whose writes all succeed, a reload
\* of the page (empty caches, then init() over the persisted store) yields
\* the getAllCases() and the getActiveCase() of before the reload.
C27_CacheTransparent ==
    LET reloaded == PageLoaded(World)
    IN  /\ getAllCases(reloaded) = Cases
        /\ getActiveCase(reloaded) = ActiveCase

\* the reload yields the same as long as the active case is a listed one
C27_WhenActiveListed ==
    (Len(ActiveCase) = 1 => Listed(ActiveCase[1].id)) => C27_CacheTransparent

----------------------------------------------------------------------------
\* the snapshot is among the searches of a case of the collection
Holds(cases, snapshot) ==
    \E i \in 1..Len(cases) : \E j \in 1..Len(cases[i].searches) :
        cases[i].searches[j] = snapshot

\* C28: a saveSearchToCase that returns a snapshot leaves it among the
\* searches of a case of getAllCases() and of the persisted collection; and
\* when there is no active case, or the active case is not in the
\* collection, it returns null.
C28_Step ==
    Calls("saveSearchToCase") =>
        /\ Len(call'.ret) = 1 =>
               /\ Holds(Cases', call'.ret[1])
               /\ Holds(PersistedCases', call'.ret[1])
        /\ (Len(ActiveCase) = 0 \/ ~Listed(ActiveCase[1].id)) => call'.ret = <<>>

C28_SnapshotIsStored == [][C28_Step]_vars

\* with a listed active case, or none, saveSearchToCase returns as claimed
C28_WhenActiveListed ==
    [][(Len(ActiveCase) = 1 => Listed(ActiveCase[1].id)) => C28_Step]_vars

----------------------------------------------------------------------------
\* a set has been called and has not returned yet
SetPending == frames # <<>>

\* C29: every call of SPECTRE_STORAGE.set returns, with true or false and
\* without an exception, also when every write of the call fails with
\* QuotaExceededError: each set that handleQuotaExceeded issues comes after a
\* cut that leaves the cached history shorter, none is issued for a history
\* of QUOTA_KEEP entries or less, and the pending sets never fill the stack.
C29_SetTerminates ==
    /\ SetPending ~> ~SetPending
    /\ [](Len(frames) < StackLimit)
    /\ [][(SetPending /\ ~SetPending') =>
              (~call'.threw /\ call'.ret \in BOOLEAN)]_vars
    /\ [][Len(frames') > Len(frames) /\ SetPending =>
              /\ Len(History) > QUOTA_KEEP
              /\ Len(History') < Len(History)
              /\ frames'[Len(frames')].value = History']_vars

\* a set on a store that rejects every write has returned false after the
\* history of MAX_HISTORY entries was cut twice
C29_Witness ==
    /\ call.name = "set" /\ call.args[1] = KEY_THEME
    /\ ~SetPending
    /\ call.ret = FALSE
    /\ localStorage.setItem = "closed"
    /\ Len(History) = (MAX_HISTORY \div 2) \div 2
    /\ Len(PersistedHistory) = MAX_HISTORY

\* each set that returns leaves the adapter that StorageSet computes in one
\* piece from the adapter the set was called on, and returns what
\* StorageSetReturns says
QuotaStepsAgree ==
    [][(SetPending /\ Len(frames') = Len(frames) - 1) =>
          LET top == frames[Len(frames)]
          IN  /\ localStorage' = StorageSet(top.entry, top.key, top.value)
              /\ top.ret = StorageSetReturns(top.entry, top.key, top.value)]_vars

====
